---- MODULE Spec2Model ----
(***************************************************************************)
(* A model of the tormach-cam core pipeline: the Z-level generator and the *)
(* slicer (core/slicer.py), the roughing and finishing planners            *)
(* (core/toolpath/), the validator (gcode/validate.py), the job            *)
(* orchestrator (core/job.py), the G-code line helpers                     *)
(* (gcode/gcode_writer.py), the PathPilot post-processor, the tool library *)
(* (core/tool.py), the tool recommendation (core/recommend.py) and the     *)
(* window that hosts the pipeline (gui/).                                  *)
(*                                                                         *)
(* Each function of the pipeline is a call: its arguments are drawn in the *)
(* initial state and one action applies the function and stores what it    *)
(* returned or raised.  One specification per component keeps the state    *)
(* spaces apart: SpecZLevels, SpecSlicer, SpecRoughing, SpecRaster,        *)
(* SpecFinishing, SpecValidate, SpecComment, SpecPost, SpecLibrary,        *)
(* SpecRecommend, Spec for Job.compute_toolpaths, and SpecGui for the      *)
(* threads of the window.                                                  *)
(*                                                                         *)
(* Numbers.  The code computes in double precision.  The model computes    *)
(* in integers:                                                            *)
(*   - Z heights of the Z-level generator are counted in units of which    *)
(*     Ulp make up 1e-10, the quantum of round(z, 10), so that rounding    *)
(*     and the 1e-9 margin act as they do in the code;                     *)
(*   - plane coordinates, feeds and spindle speeds are integers on a       *)
(*     lattice; polygons are rectilinear, unions of unit cells;            *)
(*   - the numbers handed to the G-code helpers are counted in units of    *)
(*     1e-4, the resolution of fmt(value, 4).                              *)
(* Text handed to or made by the G-code helpers is a sequence of           *)
(* characters, so that stripping, joining and containment act on the       *)
(* characters as they do on a str.                                         *)
(***************************************************************************)
EXTENDS Integers, Sequences, FiniteSets, TLC

VARIABLES
    zl_args,    \* compute_z_levels: [z_top, z_bottom, step_down]
    zl_ret,     \* what the call returned or raised
    rough_args, \* generate_roughing_toolpath: [stock_polygon, part_contours,
                \*                              z_levels, params]
    rough_ret,  \* the Toolpath it returned
    fin_args,   \* generate_finishing_toolpath: [part_contours, z_levels, params]
                \* or _trace_ring: [coords, z, params]
    fin_ret,    \* the Toolpath or ToolpathSegment it returned
    val_args,   \* validate_toolpaths: [toolpaths, envelope, rpm]
    val_ret,    \* the ValidationResult it returned
    sl_args,    \* slice_at_heights: [mesh, heights]
    sl_ret,     \* the list of SliceResult it returned
    job,        \* the Job: [model, stock, operations]
    ct,         \* compute_toolpaths: where the call stands, [pc, i, toolpaths],
                \* and how often it has called the slicer and a planner
    ct_ret,     \* what the call returned or raised
    cm_args,    \* comment: the text
    cm_ret,     \* the line it returned
    cm_again,   \* the line comment returned for that line
    pp_args,    \* PathPilotPostProcessor(cfg).get_lines: [cfg, toolpaths]
    pp_ret,     \* the lines it returned
    lib_tools,  \* ToolLibrary._tools
    lib_file,   \* the text of the file at ToolLibrary._path, None without one
    lib_log,    \* the operations made on the library so far
    lib_ret,    \* what the last operation returned or raised
    rec_args,   \* recommend_operations: [depth, library]
    rec_ret,    \* the Recommendation it returned
    rl_args,    \* raster_lines_in_bounds: [xmin, xmax, ymin, ymax, step_over]
    rl_ret,     \* the lines it returned
    gui_host,   \* MainWindow: its Job, the handler the main thread is in,
                \* and what the viewport and the G-code panel display
    gui_workers, \* the ToolpathWorkers started, each where its call of
                \* compute_toolpaths stands
    gui_loaders, \* the LoadModelWorkers running
    gui_signals \* the signals of the workers queued for the main thread

zl_vars == <<zl_args, zl_ret>>
rough_vars == <<rough_args, rough_ret>>
fin_vars == <<fin_args, fin_ret>>
val_vars == <<val_args, val_ret>>
sl_vars == <<sl_args, sl_ret>>
job_vars == <<job, ct, ct_ret>>
cm_vars == <<cm_args, cm_ret, cm_again>>
pp_vars == <<pp_args, pp_ret>>
lib_vars == <<lib_tools, lib_file, lib_log, lib_ret>>
rec_vars == <<rec_args, rec_ret>>
rl_vars == <<rl_args, rl_ret>>
gui_vars == <<gui_host, gui_workers, gui_loaders, gui_signals>>

vars == <<zl_vars, rough_vars, fin_vars, val_vars, sl_vars, job_vars, cm_vars,
          pp_vars, lib_vars, rec_vars, rl_vars, gui_vars>>

\* A call that has not been made yet / a component that takes no part.
Pending == [status |-> "pending"]
Idle == [status |-> "idle"]

Returned(v) == [status |-> "returned", value |-> v]
Raised(kind, msg) == [status |-> "raised", error |-> kind, message |-> msg]

Last(s) == s[Len(s)]

(***************************************************************************)
(* core/slicer.py: compute_z_levels                                        *)
(***************************************************************************)

\* 1e-10, the quantum of round(z, 10), in model units.
Ulp == 3

\* The 1e-9 margin of the loop test.
Eps == 10 * Ulp

\* round(v, 10): the nearest multiple of Ulp, a tie going to the even multiple.
Round10(v) ==
    LET q == v \div Ulp
        r == v % Ulp
    IN  IF 2 * r < Ulp THEN q * Ulp
        ELSE IF 2 * r > Ulp THEN (q + 1) * Ulp
        ELSE IF q % 2 = 0 THEN q * Ulp ELSE (q + 1) * Ulp

\* The while loop: levels z, z - step_down, ... while z > z_bottom + 1e-9.
RECURSIVE ZLoop(_, _, _)
ZLoop(z, z_bottom, step_down) ==
    IF z > z_bottom + Eps
    THEN <<Round10(z)>> \o ZLoop(z - step_down, z_bottom, step_down)
    ELSE <<>>

\* Faulty variant: the first level is z_top itself.
ComputeZLevelsFromTop(z_top, z_bottom, step_down) ==
    IF step_down <= 0
    THEN Raised("ValueError", "step_down must be positive")
    ELSE IF z_bottom >= z_top
    THEN Raised("ValueError", "z_bottom must be less than z_top")
    ELSE Returned(ZLoop(z_top, z_bottom, step_down) \o <<Round10(z_bottom)>>)

\* Faulty variant: the depths are checked before step_down.
ComputeZLevelsDepthsFirst(z_top, z_bottom, step_down) ==
    IF z_bottom >= z_top
    THEN Raised("ValueError", "z_bottom must be less than z_top")
    ELSE IF step_down <= 0
    THEN Raised("ValueError", "step_down must be positive")
    ELSE Returned(ZLoop(z_top - step_down, z_bottom, step_down)
                  \o <<Round10(z_bottom)>>)

ComputeZLevels(z_top, z_bottom, step_down) ==
    IF step_down <= 0
    THEN Raised("ValueError", "step_down must be positive")
    ELSE IF z_bottom >= z_top
    THEN Raised("ValueError", "z_bottom must be less than z_top")
    ELSE Returned(ZLoop(z_top - step_down, z_bottom, step_down)
                  \o <<Round10(z_bottom)>>)

\* Bounds of the inputs drawn for compute_z_levels.
MaxZTop == 2
MaxDepth == 75
MaxStepDown == 36

ZTops == 0..MaxZTop
ZBottoms == (0 - MaxDepth)..1
StepDowns == (0 - 1)..MaxStepDown

ZLInit ==
    /\ zl_args \in [z_top : ZTops, z_bottom : ZBottoms, step_down : StepDowns]
    /\ zl_ret = Pending

CallComputeZLevels ==
    /\ zl_ret = Pending
    /\ zl_ret' = ComputeZLevels(zl_args.z_top, zl_args.z_bottom,
                                zl_args.step_down)
    /\ UNCHANGED zl_args

ZLIdle == zl_args = Idle /\ zl_ret = Idle


(***************************************************************************)
(* Plane geometry (shapely, as the planners use it).                       *)
(*                                                                         *)
(* A Polygon or MultiPolygon is a sequence of pieces, the empty sequence   *)
(* being the empty polygon.  A piece is an axis-aligned rectangle with     *)
(* rectangular holes, on integer coordinates.  A region built by union     *)
(* and difference is the set of unit cells it covers, a cell being named   *)
(* by its lower left corner.                                               *)
(***************************************************************************)

Rect(x0, y0, x1, y1) == [x0 |-> x0, y0 |-> y0, x1 |-> x1, y1 |-> y1]

Piece(outer, holes) == [outer |-> outer, holes |-> holes]

EmptyPolygon == <<>>

\* geom.is_empty
IsEmpty(geom) == geom = <<>>

\* iter_polygons: the pieces of a Polygon or MultiPolygon, empty ones skipped.
IterPolygons(geom) == geom

Range(s) == {s[i] : i \in DOMAIN s}

RECURSIVE SortedSeq(_)
SortedSeq(S) ==
    IF S = {} THEN <<>>
    ELSE LET m == CHOOSE a \in S : \A b \in S : a <= b
         IN  <<m>> \o SortedSeq(S \ {m})

Reverse(s) == [i \in 1..Len(s) |-> s[Len(s) + 1 - i]]

\* The sequences of ss one after the other.
RECURSIVE Flatten(_)
Flatten(ss) == IF ss = <<>> THEN <<>> ELSE Head(ss) \o Flatten(Tail(ss))

CellsOfRect(r) == (r.x0..(r.x1 - 1)) \X (r.y0..(r.y1 - 1))

CellsOfPiece(p) ==
    CellsOfRect(p.outer) \ UNION {CellsOfRect(h) : h \in Range(p.holes)}

NonDegenerate(r) == r.x0 < r.x1 /\ r.y0 < r.y1

Grow(r, d) == Rect(r.x0 - d, r.y0 - d, r.x1 + d, r.y1 + d)

\* poly.buffer(offset) for offset >= 0: the outline moves outward by offset
\* and every hole inward; a hole that closes up disappears.
Buffer(p, offset) ==
    Piece(Grow(p.outer, offset),
          SelectSeq([i \in 1..Len(p.holes) |-> Grow(p.holes[i], 0 - offset)],
                    NonDegenerate))

\* ensure_polygon: a valid Polygon or MultiPolygon is returned as it is.
EnsurePolygon(cells) == cells

\* geom.bounds of a non-empty region: (minx, miny, maxx, maxy).
BoundsOf(cells) ==
    LET xs == {c[1] : c \in cells}
        ys == {c[2] : c \in cells}
        Min(S) == CHOOSE a \in S : \A b \in S : a <= b
        Max(S) == CHOOSE a \in S : \A b \in S : a >= b
    IN  <<Min(xs), Min(ys), Max(xs) + 1, Max(ys) + 1>>

\* line.intersection(region) for the horizontal line from (xmin, y) to
\* (xmax, y): the maximal stretches of the line that lie in the closed
\* region, in the direction of the line, each a LineString of two
\* coordinates.  A unit stretch lies in the closed region when the cell
\* above or below it does.
Intersection(line, cells) ==
    LET y == line[1][2]
        In(x) == <<x, y>> \in cells \/ <<x, y - 1>> \in cells
        E == {x \in line[1][1]..(line[2][1] - 1) : In(x)}
        starts == SortedSeq({x \in E : (x - 1) \notin E})
        EndOf(s) == (CHOOSE x \in E : /\ x >= s
                                      /\ (x + 1) \notin E
                                      /\ \A w \in s..x : w \in E) + 1
    IN  [k \in 1..Len(starts) |-> <<<<starts[k], y>>, <<EndOf(starts[k]), y>>>>]

(***************************************************************************)
(* core/toolpath/base.py: the toolpath records                             *)
(***************************************************************************)

RAPID == "rapid"
FEED == "feed"
PLUNGE == "plunge"
RETRACT == "retract"

\* Optional[float]: None is the empty sequence, a value v is <<v>>.
None == <<>>
Some(v) == <<v>>

ToolpathPoint(x, y, z, move_type, feed_rate) ==
    [x |-> x, y |-> y, z |-> z, move_type |-> move_type,
     feed_rate |-> feed_rate]

ToolpathSegment(points, z_level, label) ==
    [points |-> points, z_level |-> z_level, label |-> label]

SegmentIsEmpty(seg) == Len(seg.points) = 0

Toolpath(segments, tool_number, operation_name) ==
    [segments |-> segments, tool_number |-> tool_number,
     operation_name |-> operation_name]

ToolpathIsEmpty(tp) == \A i \in DOMAIN tp.segments : SegmentIsEmpty(tp.segments[i])

(***************************************************************************)
(* core/toolpath/utils.py: raster_lines_in_bounds, at angle 0              *)
(***************************************************************************)

\* The while loop: lines at y, y + step_over, ... while y <= ymax (+ 1e-9).
\* It ends only for step_over > 0.
RECURSIVE RasterLoop(_, _, _, _, _)
RasterLoop(xmin, xmax, y, ymax, step_over) ==
    IF y <= ymax
    THEN <<<<<<xmin, y>>, <<xmax, y>>>>>>
         \o RasterLoop(xmin, xmax, y + step_over, ymax, step_over)
    ELSE <<>>

\* Faulty variant: the loop stops before ymax.
RECURSIVE RasterLinesBelowYmax(_, _, _, _, _)
RasterLinesBelowYmax(xmin, xmax, ymin, ymax, step_over) ==
    IF ymin < ymax
    THEN <<<<<<xmin, ymin>>, <<xmax, ymin>>>>>>
         \o RasterLinesBelowYmax(xmin, xmax, ymin + step_over, ymax, step_over)
    ELSE <<>>

RasterLinesInBounds(xmin, xmax, ymin, ymax, step_over) ==
    RasterLoop(xmin, xmax, ymin, ymax, step_over)

(***************************************************************************)
(* core/toolpath/roughing.py                                               *)
(***************************************************************************)

\* Faulty variant: i counts only the raster lines that clip to something.
RECURSIVE ClippedLinesCountingHits(_, _, _)
ClippedLinesCountingHits(rasters, i, machinable) ==
    IF rasters = <<>> THEN <<>>
    ELSE LET raw_lines == Intersection(Head(rasters), machinable)
             coords == [k \in 1..Len(raw_lines) |->
                           IF i % 2 = 1 THEN Reverse(raw_lines[k])
                           ELSE raw_lines[k]]
         IN  coords \o ClippedLinesCountingHits(
                           Tail(rasters),
                           IF raw_lines = <<>> THEN i ELSE i + 1, machinable)

\* Lines 110-131: clip every raster line, keep the LineStrings and reverse
\* those of the odd-indexed lines (i counts from 0).
RECURSIVE ClippedLines(_, _, _)
ClippedLines(rasters, i, machinable) ==
    IF i >= Len(rasters) THEN <<>>
    ELSE LET raw_lines == Intersection(rasters[i + 1], machinable)
             coords == [k \in 1..Len(raw_lines) |->
                           IF i % 2 = 1 THEN Reverse(raw_lines[k])
                           ELSE raw_lines[k]]
         IN  coords \o ClippedLines(rasters, i + 1, machinable)

\* Lines 139-160: the approach to the start of one clipped line (Approach)
\* and the feed through the rest of it (FeedPoints).

\* Faulty variant: the cutting moves carry the plunge feed.
FeedPointsAtPlungeFeed(coords, z, params) ==
    [k \in 1..(Len(coords) - 1) |->
        ToolpathPoint(coords[k + 1][1], coords[k + 1][2], z, FEED,
                      Some(params.feed_z))]

FeedPoints(coords, z, params) ==
    [k \in 1..(Len(coords) - 1) |->
        ToolpathPoint(coords[k + 1][1], coords[k + 1][2], z, FEED,
                      Some(params.feed_xy))]

\* Faulty variant: no retract between two clipped lines, the rapid to the
\* next line starts from cutting depth.
ApproachWithoutRetract(points, coords, z, params) ==
    <<ToolpathPoint(coords[1][1], coords[1][2], params.safe_z, RAPID, None),
      ToolpathPoint(coords[1][1], coords[1][2], z, PLUNGE, Some(params.feed_z))>>

Approach(points, coords, z, params) ==
    LET start_x == coords[1][1]
        start_y == coords[1][2]
    IN  IF points = <<>>
        THEN <<ToolpathPoint(start_x, start_y, params.safe_z, RAPID, None),
               ToolpathPoint(start_x, start_y, z, PLUNGE, Some(params.feed_z))>>
        ELSE <<ToolpathPoint(Last(points).x, Last(points).y, params.safe_z,
                             RETRACT, None),
               ToolpathPoint(start_x, start_y, params.safe_z, RAPID, None),
               ToolpathPoint(start_x, start_y, z, PLUNGE, Some(params.feed_z))>>

\* Lines 134-160: the loop over the clipped lines.
RECURSIVE BuildPoints(_, _, _, _, _)
BuildPoints(points, clipped_lines, k, z, params) ==
    IF k > Len(clipped_lines) THEN points
    ELSE LET coords == clipped_lines[k]
         IN  IF coords = <<>>
             THEN BuildPoints(points, clipped_lines, k + 1, z, params)
             ELSE BuildPoints(points \o Approach(points, coords, z, params)
                                     \o FeedPoints(coords, z, params),
                              clipped_lines, k + 1, z, params)

\* Lines 162-166: the final retract.
FinalRetract(points, params) ==
    IF points = <<>> THEN points
    ELSE Append(points, ToolpathPoint(Last(points).x, Last(points).y,
                                      params.safe_z, RETRACT, None))

RasterZigzagAtLevel(machinable, z, params) ==
    LET bounds == BoundsOf(machinable)
        rasters == RasterLinesInBounds(bounds[1], bounds[3], bounds[2],
                                       bounds[4], params.step_over)
        clipped_lines == ClippedLines(rasters, 0, machinable)
    IN  ToolpathSegment(
            FinalRetract(BuildPoints(<<>>, clipped_lines, 1, z, params), params),
            z, <<"rough", z>>)

\* Lines 72-77: the union of the buffered pieces of the part cross-section.
Exclusion(part_poly, offset) ==
    EnsurePolygon(UNION {CellsOfPiece(Buffer(p, offset)) :
                            p \in Range(IterPolygons(part_poly))})

\* Faulty variant: the exclusion region is not taken out of the stock.
MachinableWholeStock(stock_polygon, exclusion) ==
    EnsurePolygon(CellsOfRect(stock_polygon))

\* Lines 80-81: stock_polygon.difference(exclusion).
Machinable(stock_polygon, exclusion) ==
    EnsurePolygon(CellsOfRect(stock_polygon) \ exclusion)

\* Line 68: the cross-section of level i (from 0), the last one reused.
ContourIdx(i, n) == IF i < n - 1 THEN i ELSE n - 1

\* Lines 67-88: the segments of levels i, i + 1, ... (i counts from 0).
RECURSIVE RoughingLevels(_, _, _, _, _)
RoughingLevels(stock_polygon, part_contours, z_levels, params, i) ==
    IF i >= Len(z_levels) THEN <<>>
    ELSE LET z == z_levels[i + 1]
             part_poly == part_contours[ContourIdx(i, Len(part_contours)) + 1]
             offset == params.tool_radius + params.finish_allowance
             machinable == Machinable(stock_polygon, Exclusion(part_poly, offset))
             rest == RoughingLevels(stock_polygon, part_contours, z_levels,
                                    params, i + 1)
         IN  IF machinable = {} THEN rest
             ELSE LET seg == RasterZigzagAtLevel(machinable, z, params)
                  IN  IF SegmentIsEmpty(seg) THEN rest ELSE <<seg>> \o rest

\* The level's machinable region, as lines 68-81 compute it.
MachinableAt(stock_polygon, part_contours, params, i) ==
    Machinable(stock_polygon,
               Exclusion(part_contours[ContourIdx(i, Len(part_contours)) + 1],
                         params.tool_radius + params.finish_allowance))

\* A call that never returns.
Diverged == [status |-> "diverged"]

\* Faulty variant: the segments are collected from the deepest level up.
GenerateRoughingToolpathDeepestFirst(stock_polygon, part_contours, z_levels, params) ==
    IF Len(z_levels) > 0 /\ Len(part_contours) = 0
    THEN Raised("IndexError", "list index out of range")
    ELSE IF /\ params.step_over <= 0
            /\ \E i \in 0..(Len(z_levels) - 1) :
                   MachinableAt(stock_polygon, part_contours, params, i) # {}
    THEN Diverged
    ELSE Returned(Toolpath(Reverse(RoughingLevels(stock_polygon, part_contours,
                                                  z_levels, params, 0)),
                           1, "roughing"))

\* Faulty variant: a level with nothing to cut is not skipped and its
\* segment, which has no point, is added to the toolpath.
GenerateRoughingToolpathKeepsEmpty(stock_polygon, part_contours, z_levels, params) ==
    IF Len(z_levels) > 0 /\ Len(part_contours) = 0
    THEN Raised("IndexError", "list index out of range")
    ELSE IF /\ params.step_over <= 0
            /\ \E i \in 0..(Len(z_levels) - 1) :
                   MachinableAt(stock_polygon, part_contours, params, i) # {}
    THEN Diverged
    ELSE Returned(Toolpath(
             [k \in 1..Len(z_levels) |->
                 IF MachinableAt(stock_polygon, part_contours, params, k - 1) = {}
                 THEN ToolpathSegment(<<>>, z_levels[k], <<"rough", z_levels[k]>>)
                 ELSE RasterZigzagAtLevel(
                          MachinableAt(stock_polygon, part_contours, params, k - 1),
                          z_levels[k], params)],
             1, "roughing"))

\* part_contours[-1] of an empty list raises IndexError at the first level.
\* The raster loop of a level with something to cut never ends when
\* step_over <= 0.
GenerateRoughingToolpath(stock_polygon, part_contours, z_levels, params) ==
    IF Len(z_levels) > 0 /\ Len(part_contours) = 0
    THEN Raised("IndexError", "list index out of range")
    ELSE IF /\ params.step_over <= 0
            /\ \E i \in 0..(Len(z_levels) - 1) :
                   MachinableAt(stock_polygon, part_contours, params, i) # {}
    THEN Diverged
    ELSE Returned(Toolpath(RoughingLevels(stock_polygon, part_contours,
                                          z_levels, params, 0),
                           1, "roughing"))

\* Bounds of the inputs drawn for the planners.
GridMax == 4
MaxLevels == 2
MaxRadius == 1
MaxStepOver == 2

\* Stock footprints.
StockPolygons == {Rect(0, 0, GridMax, GridMax), Rect(1, 0, GridMax, 2)}

\* Part cross-sections: nothing, a block, a frame around a pocket, two
\* separate blocks, a block reaching over the edge of the stock, a bar
\* across the stock.
Blocks ==
    {Rect(1, 1, 2, 2), Rect(1, 1, 3, 3), Rect(2, 1, 3, 3), Rect(1, 2, 3, 3),
     Rect(2, 2, 3, 3), Rect(1, 1, 3, 2)}

PartContours ==
    {EmptyPolygon}
    \cup {<<Piece(b, <<>>)>> : b \in Blocks}
    \cup {<<Piece(Rect(0, 0, GridMax, GridMax),
                  <<Rect(1, 1, GridMax - 1, GridMax - 1)>>)>>,
          <<Piece(Rect(0, 1, 1, 2), <<>>),
            Piece(Rect(GridMax - 1, 1, GridMax, 2), <<>>)>>,
          <<Piece(Rect(0 - 1, 0 - 1, 1, GridMax + 1), <<>>)>>,
          <<Piece(Rect(0, 1, GridMax, GridMax - 1), <<>>)>>}

\* Descending Z levels -1, -2, ...
ZLevelLists == {[i \in 1..n |-> 0 - i] : n \in 1..MaxLevels}

\* Lists of at most n cross-sections.
ContourLists(n) == UNION {[1..k -> PartContours] : k \in 0..n}

RoughingParamsSet ==
    [tool_radius : 0..MaxRadius, step_over : 0..MaxStepOver, step_down : {1},
     feed_xy : {20}, feed_z : {5}, safe_z : {1}, rapid_z : {5},
     finish_allowance : {0, 1}, raster_angle : {0}]

RoughInit ==
    /\ \E z_levels \in ZLevelLists :
        rough_args \in [stock_polygon : StockPolygons,
                        part_contours : ContourLists(Len(z_levels)),
                        z_levels : {z_levels},
                        params : RoughingParamsSet]
    /\ rough_ret = Pending

CallGenerateRoughingToolpath ==
    /\ rough_ret = Pending
    /\ rough_ret' = GenerateRoughingToolpath(
                        rough_args.stock_polygon, rough_args.part_contours,
                        rough_args.z_levels, rough_args.params)
    /\ UNCHANGED rough_args

RoughIdle == rough_args = Idle /\ rough_ret = Idle

\* A call of raster_lines_in_bounds at angle 0; with a step_over that is
\* not positive the while loop of a box with ymin <= ymax never ends.
RasterInit ==
    /\ rl_args \in {a \in [xmin : 0..1, xmax : {GridMax - 1, GridMax},
                            ymin : 0..GridMax, ymax : 0..GridMax,
                            step_over : 0..(MaxStepOver + 1)] :
                        a.ymin <= a.ymax}
    /\ rl_ret = Pending

CallRasterLinesInBounds ==
    /\ rl_ret = Pending
    /\ rl_ret' = IF rl_args.step_over <= 0
                 THEN Diverged
                 ELSE Returned(RasterLinesInBounds(
                                   rl_args.xmin, rl_args.xmax, rl_args.ymin,
                                   rl_args.ymax, rl_args.step_over))
    /\ UNCHANGED rl_args

RasterIdle == rl_args = Idle /\ rl_ret = Idle

(***************************************************************************)
(* core/toolpath/finishing.py                                              *)
(***************************************************************************)

\* ring.coords of a rectangle: a closed ring, the first point repeated last.
ExteriorCoords(r) ==
    <<<<r.x0, r.y0>>, <<r.x1, r.y0>>, <<r.x1, r.y1>>, <<r.x0, r.y1>>,
      <<r.x0, r.y0>>>>

InteriorCoords(r) ==
    <<<<r.x0, r.y0>>, <<r.x0, r.y1>>, <<r.x1, r.y1>>, <<r.x1, r.y0>>,
      <<r.x0, r.y0>>>>

\* Faulty variant: a ring that is not closed is not closed by a feed.
TraceRingLeftOpen(coords, z, params, label) ==
    IF Len(coords) < 2
    THEN ToolpathSegment(<<>>, z, label)
    ELSE ToolpathSegment(
             <<ToolpathPoint(coords[1][1], coords[1][2], params.safe_z, RAPID,
                             None),
               ToolpathPoint(coords[1][1], coords[1][2], z, PLUNGE,
                             Some(params.feed_z))>>
             \o [k \in 1..(Len(coords) - 1) |->
                    ToolpathPoint(coords[k + 1][1], coords[k + 1][2], z, FEED,
                                  Some(params.feed_xy))]
             \o <<ToolpathPoint(coords[1][1], coords[1][2], params.safe_z,
                                RETRACT, None)>>,
             z, label)

TraceRing(coords, z, params, label) ==
    IF Len(coords) < 2
    THEN ToolpathSegment(<<>>, z, label)
    ELSE LET x0 == coords[1][1]
             y0 == coords[1][2]
             approach ==
                 <<ToolpathPoint(x0, y0, params.safe_z, RAPID, None),
                   ToolpathPoint(x0, y0, z, PLUNGE, Some(params.feed_z))>>
             around ==
                 [k \in 1..(Len(coords) - 1) |->
                     ToolpathPoint(coords[k + 1][1], coords[k + 1][2], z, FEED,
                                   Some(params.feed_xy))]
             close ==
                 IF Last(coords) # <<x0, y0>>
                 THEN <<ToolpathPoint(x0, y0, z, FEED, Some(params.feed_xy))>>
                 ELSE <<>>
             retract ==
                 <<ToolpathPoint(x0, y0, params.safe_z, RETRACT, None)>>
         IN  ToolpathSegment(approach \o around \o close \o retract, z, label)

NonEmptySegments(segs) == SelectSeq(segs, LAMBDA seg : ~SegmentIsEmpty(seg))

\* Lines 64-80: the exterior ring of a piece of the centerline, then each of
\* its interior rings.
\* Faulty variant: only the exterior ring of a piece is traced.
RingsOfPieceExteriorOnly(cpoly, z, params) ==
    NonEmptySegments(
        <<TraceRing(ExteriorCoords(cpoly.outer), z, params, <<"finish ext", z>>)>>)

RingsOfPiece(cpoly, z, params) ==
    NonEmptySegments(
        <<TraceRing(ExteriorCoords(cpoly.outer), z, params, <<"finish ext", z>>)>>
        \o [h \in 1..Len(cpoly.holes) |->
               TraceRing(InteriorCoords(cpoly.holes[h]), z, params,
                         <<"finish int", z>>)])

\* Lines 57-80: the pieces k, k + 1, ... of the cross-section of one level.
RECURSIVE FinishingPieces(_, _, _, _, _)
FinishingPieces(part_poly, k, offset, z, params) ==
    IF k > Len(part_poly) THEN <<>>
    ELSE LET centerline == Buffer(IterPolygons(part_poly)[k], offset)
             rest == FinishingPieces(part_poly, k + 1, offset, z, params)
         IN  IF ~NonDegenerate(centerline.outer) THEN rest
             ELSE RingsOfPiece(centerline, z, params) \o rest

\* Lines 53-80: the levels i, i + 1, ... (i counts from 0).
RECURSIVE FinishingLevels(_, _, _, _)
FinishingLevels(part_contours, z_levels, params, i) ==
    IF i >= Len(z_levels) THEN <<>>
    ELSE LET z == z_levels[i + 1]
             part_poly == part_contours[ContourIdx(i, Len(part_contours)) + 1]
             offset == params.tool_radius + params.extra_offset
         IN  FinishingPieces(part_poly, 1, offset, z, params)
             \o FinishingLevels(part_contours, z_levels, params, i + 1)

GenerateFinishingToolpath(part_contours, z_levels, params) ==
    IF Len(z_levels) > 0 /\ Len(part_contours) = 0
    THEN Raised("IndexError", "list index out of range")
    ELSE Returned(Toolpath(FinishingLevels(part_contours, z_levels, params, 0),
                           1, "finishing"))

\* Bound of the rings drawn for _trace_ring.
MaxRing == 3

FinishingParamsSet ==
    [tool_radius : 0..MaxRadius, feed_xy : {15}, feed_z : {4}, safe_z : {1},
     rapid_z : {5}, extra_offset : {0, 1}]

RingCoords == UNION {[1..n -> (0..1) \X (0..1)] : n \in 0..MaxRing}

FinInit ==
    /\ \/ \E z_levels \in ZLevelLists :
              fin_args \in [call : {"generate_finishing_toolpath"},
                            part_contours : ContourLists(Len(z_levels)),
                            z_levels : {z_levels},
                            params : FinishingParamsSet]
       \/ fin_args \in [call : {"_trace_ring"}, coords : RingCoords,
                        z : {0 - 1}, params : FinishingParamsSet]
    /\ fin_ret = Pending

CallGenerateFinishingToolpath ==
    /\ fin_ret = Pending
    /\ fin_args.call = "generate_finishing_toolpath"
    /\ fin_ret' = GenerateFinishingToolpath(fin_args.part_contours,
                                            fin_args.z_levels, fin_args.params)
    /\ UNCHANGED fin_args

CallTraceRing ==
    /\ fin_ret = Pending
    /\ fin_args.call = "_trace_ring"
    /\ fin_ret' = Returned(TraceRing(fin_args.coords, fin_args.z,
                                     fin_args.params, <<>>))
    /\ UNCHANGED fin_args

FinIdle == fin_args = Idle /\ fin_ret = Idle

(***************************************************************************)
(* gcode/validate.py                                                       *)
(***************************************************************************)

ValidationIssue(severity, message, point) ==
    [severity |-> severity, message |-> message, point |-> point]

\* Lines 94-123: the issues of one point.
\* Faulty variant: a point on a travel limit is reported as outside.
PointIssuesExclusive(pt, envelope) ==
    (IF pt.x <= envelope.x_min \/ pt.x >= envelope.x_max
     THEN <<ValidationIssue("error", "X outside travel", Some(pt))>> ELSE <<>>)
    \o (IF pt.y <= envelope.y_min \/ pt.y >= envelope.y_max
        THEN <<ValidationIssue("error", "Y outside travel", Some(pt))>> ELSE <<>>)
    \o (IF pt.z <= envelope.z_min \/ pt.z >= envelope.z_max
        THEN <<ValidationIssue("error", "Z outside travel", Some(pt))>> ELSE <<>>)
    \o (IF pt.feed_rate # None /\ pt.feed_rate[1] > envelope.max_feed
        THEN <<ValidationIssue("warning", "Feed exceeds machine max", Some(pt))>>
        ELSE <<>>)

PointIssues(pt, envelope) ==
    (IF pt.x < envelope.x_min \/ pt.x > envelope.x_max
     THEN <<ValidationIssue("error", "X outside travel", Some(pt))>> ELSE <<>>)
    \o (IF pt.y < envelope.y_min \/ pt.y > envelope.y_max
        THEN <<ValidationIssue("error", "Y outside travel", Some(pt))>> ELSE <<>>)
    \o (IF pt.z < envelope.z_min \/ pt.z > envelope.z_max
        THEN <<ValidationIssue("error", "Z outside travel", Some(pt))>> ELSE <<>>)
    \o (IF pt.feed_rate # None /\ pt.feed_rate[1] > envelope.max_feed
        THEN <<ValidationIssue("warning", "Feed exceeds machine max", Some(pt))>>
        ELSE <<>>)

RECURSIVE PointsIssues(_, _, _)
PointsIssues(points, k, envelope) ==
    IF k > Len(points) THEN <<>>
    ELSE PointIssues(points[k], envelope) \o PointsIssues(points, k + 1, envelope)

RECURSIVE SegmentsIssues(_, _, _)
SegmentsIssues(segments, k, envelope) ==
    IF k > Len(segments) THEN <<>>
    ELSE PointsIssues(segments[k].points, 1, envelope)
         \o SegmentsIssues(segments, k + 1, envelope)

\* Lines 86-123: the loop over the toolpaths, an empty one skipped.
RECURSIVE ToolpathsIssues(_, _, _)
ToolpathsIssues(toolpaths, k, envelope) ==
    IF k > Len(toolpaths) THEN <<>>
    ELSE (IF ToolpathIsEmpty(toolpaths[k]) THEN <<>>
          ELSE SegmentsIssues(toolpaths[k].segments, 1, envelope))
         \o ToolpathsIssues(toolpaths, k + 1, envelope)

\* Lines 74-83: the spindle speed.
RpmIssues(envelope, rpm) ==
    (IF rpm < envelope.min_rpm
     THEN <<ValidationIssue("error", "RPM below machine minimum", None)>>
     ELSE <<>>)
    \o (IF rpm > envelope.max_rpm
        THEN <<ValidationIssue("error", "RPM above machine maximum", None)>>
        ELSE <<>>)

\* Faulty variant: the warning about empty toolpaths is given as soon as one
\* toolpath is empty.
ValidateToolpathsAnyEmpty(toolpaths, envelope, rpm) ==
    LET any_empty == \E k \in DOMAIN toolpaths : ToolpathIsEmpty(toolpaths[k])
    IN  Returned([issues |->
            RpmIssues(envelope, rpm)
            \o ToolpathsIssues(toolpaths, 1, envelope)
            \o (IF any_empty \/ toolpaths = <<>>
                THEN <<ValidationIssue("warning", "All toolpaths are empty", None)>>
                ELSE <<>>)])

ValidateToolpaths(toolpaths, envelope, rpm) ==
    LET all_empty == \A k \in DOMAIN toolpaths : ToolpathIsEmpty(toolpaths[k])
    IN  Returned([issues |->
            RpmIssues(envelope, rpm)
            \o ToolpathsIssues(toolpaths, 1, envelope)
            \o (IF all_empty
                THEN <<ValidationIssue("warning", "All toolpaths are empty", None)>>
                ELSE <<>>)])

\* ValidationResult.has_errors
HasErrors(result) ==
    \E k \in DOMAIN result.issues : result.issues[k].severity = "error"

\* Bounds of the inputs drawn for validate_toolpaths.
MaxToolpaths == 2
MaxRpm == 5

\* A small machine envelope.
Envelopes ==
    {[x_min |-> 0, x_max |-> 3, y_min |-> 0, y_max |-> 2, z_min |-> 0 - 2,
      z_max |-> 1, max_rpm |-> 4, min_rpm |-> 2, max_feed |-> 20]}

\* Points inside the envelope, on each of its limits, and one step beyond
\* each limit; feeds unset, at the maximum and above it.
ValPoints(e) ==
    {ToolpathPoint(1, 1, 0 - 1, FEED, Some(5)),
     ToolpathPoint(e.x_min, e.y_min, e.z_min, PLUNGE, Some(e.max_feed)),
     ToolpathPoint(e.x_max, e.y_max, e.z_max, RAPID, None),
     ToolpathPoint(e.x_min - 1, 1, 0 - 1, FEED, Some(5)),
     ToolpathPoint(e.x_max + 1, 1, 0 - 1, FEED, Some(5)),
     ToolpathPoint(1, e.y_min - 1, 0 - 1, FEED, Some(5)),
     ToolpathPoint(1, e.y_max + 1, 0 - 1, FEED, Some(5)),
     ToolpathPoint(1, 1, e.z_min - 1, PLUNGE, Some(5)),
     ToolpathPoint(1, 1, e.z_max + 1, RETRACT, None),
     ToolpathPoint(1, 1, 0 - 1, FEED, Some(e.max_feed + 1))}

\* Toolpaths: no segment, one segment of no, one or two points, an empty
\* segment followed by a segment of one point.
ValToolpaths(e) ==
    LET ok == ToolpathPoint(1, 1, 0 - 1, FEED, Some(5))
        Seg(points) == ToolpathSegment(points, 0 - 1, <<>>)
        Tp(segments) == Toolpath(segments, 1, "op")
    IN  {Tp(<<>>), Tp(<<Seg(<<>>)>>)}
        \cup {Tp(<<Seg(<<pt>>)>>) : pt \in ValPoints(e)}
        \cup {Tp(<<Seg(<<ok, pt>>)>>) : pt \in ValPoints(e)}
        \cup {Tp(<<Seg(<<>>), Seg(<<pt>>)>>) : pt \in ValPoints(e)}

ValInit ==
    /\ \E e \in Envelopes :
        val_args \in [toolpaths : UNION {[1..n -> ValToolpaths(e)] :
                                            n \in 0..MaxToolpaths},
                      envelope : {e},
                      rpm : 1..MaxRpm]
    /\ val_ret = Pending

CallValidateToolpaths ==
    /\ val_ret = Pending
    /\ val_ret' = ValidateToolpaths(val_args.toolpaths, val_args.envelope,
                                    val_args.rpm)
    /\ UNCHANGED val_args

ValIdle == val_args = Idle /\ val_ret = Idle

(***************************************************************************)
(* core/slicer.py: slice_at_heights                                        *)
(*                                                                         *)
(* A mesh is a stack of slabs, each with the Path2D its planes cut.  A     *)
(* Path2D is closed (polygons_full gives its polygons), open (it gives     *)
(* none) or broken (it raises).                                            *)
(***************************************************************************)

Slab(z_lo, z_hi, path) == [z_lo |-> z_lo, z_hi |-> z_hi, path |-> path]

ClosedPath(polygons) == [kind |-> "closed", polygons |-> polygons]
OpenPath == [kind |-> "open"]
BrokenPath == [kind |-> "broken"]

\* A plane that misses the mesh: section_multiplane gives None there.
NoSection == [kind |-> "none"]

\* mesh.section_multiplane: one entry per height, in the order of heights.
SectionMultiplane(mesh, heights) ==
    [i \in 1..Len(heights) |->
        LET hit == {k \in DOMAIN mesh :
                       mesh[k].z_lo <= heights[i] /\ heights[i] <= mesh[k].z_hi}
        IN  IF hit = {} THEN NoSection
            ELSE mesh[CHOOSE k \in hit : \A j \in hit : k <= j].path]

\* _path2d_to_shapely: the union of the polygons, or the empty polygon when
\* there are none or the conversion raises.
Path2dToShapely(path) ==
    IF path.kind = "broken" THEN EmptyPolygon
    ELSE IF path.kind = "open" THEN EmptyPolygon
    ELSE path.polygons

SliceResult(z, polygon) == [z |-> z, polygon |-> polygon]

\* zip(heights, sections)
ZipLen(a, b) == IF Len(a) < Len(b) THEN Len(a) ELSE Len(b)

\* Faulty variant: a height that misses the mesh gets no result.
SliceAtHeightsHitsOnly(mesh, heights) ==
    IF heights = <<>> THEN Returned(<<>>)
    ELSE LET sections == SectionMultiplane(mesh, heights)
             hits == SelectSeq([i \in 1..ZipLen(heights, sections) |-> i],
                               LAMBDA i : sections[i] # NoSection)
         IN  Returned([k \in 1..Len(hits) |->
                 SliceResult(heights[hits[k]],
                             Path2dToShapely(sections[hits[k]]))])

SliceAtHeights(mesh, heights) ==
    IF heights = <<>> THEN Returned(<<>>)
    ELSE LET sections == SectionMultiplane(mesh, heights)
         IN  Returned([i \in 1..ZipLen(heights, sections) |->
                 IF sections[i] = NoSection
                 THEN SliceResult(heights[i], EmptyPolygon)
                 ELSE SliceResult(heights[i], Path2dToShapely(sections[i]))])

\* Bounds of the inputs drawn for slice_at_heights.
MaxHeights == 3
MaxHeight == 1

\* Meshes: a block, a block on a wider base, a frame, a mesh whose lower
\* planes cut an open or a broken path, and a mesh with a gap in the middle.
SliceMeshes ==
    LET block == <<Piece(Rect(1, 1, 3, 3), <<>>)>>
        base == <<Piece(Rect(1, 1, 4, 4), <<>>)>>
        frame == <<Piece(Rect(0, 0, 4, 4), <<Rect(1, 1, 3, 3)>>)>>
    IN  {<<Slab(0 - 2, 0, ClosedPath(block))>>,
         <<Slab(0 - 1, 0, ClosedPath(block)), Slab(0 - 3, 0 - 2, ClosedPath(base))>>,
         <<Slab(0 - 3, 0, ClosedPath(frame))>>,
         <<Slab(0 - 1, 0, ClosedPath(block)), Slab(0 - 2, 0 - 2, OpenPath)>>,
         <<Slab(0 - 1, 0, ClosedPath(block)), Slab(0 - 2, 0 - 2, BrokenPath)>>,
         <<Slab(0, 0, ClosedPath(block)), Slab(0 - 3, 0 - 2, ClosedPath(block))>>}

SlInit ==
    /\ sl_args \in [mesh : SliceMeshes,
                    heights : UNION {[1..n -> (0 - 3)..MaxHeight] :
                                        n \in 0..MaxHeights}]
    /\ sl_ret = Pending

CallSliceAtHeights ==
    /\ sl_ret = Pending
    /\ sl_ret' = SliceAtHeights(sl_args.mesh, sl_args.heights)
    /\ UNCHANGED sl_args

SlIdle == sl_args = Idle /\ sl_ret = Idle


(***************************************************************************)
(* core/job.py, core/operation.py, core/tool.py, core/stock.py             *)
(*                                                                         *)
(* Heights of a job are counted in the units of the Z-level generator;     *)
(* plane coordinates and tool diameters in lattice units.  The records     *)
(* keep the fields that compute_toolpaths reads.  Nothing checks a record  *)
(* on construction, so every combination of field values is a job.         *)
(***************************************************************************)

ROUGHING == "roughing"
FINISHING == "finishing"

Tool(number, diameter) == [number |-> number, diameter |-> diameter]

\* Tool.radius
Radius(tool) == tool.diameter \div 2

Operation(name, strategy, tool, z_bottom, step_down, step_over_fraction) ==
    [name |-> name, strategy |-> strategy, tool |-> tool,
     z_top |-> 0, z_bottom |-> z_bottom, step_down |-> step_down,
     step_over_fraction |-> step_over_fraction,
     feed_xy |-> 20, feed_z |-> 5, safe_z |-> 30, rapid_z |-> 150,
     finish_allowance |-> 0, raster_angle |-> 0]

\* Operation.step_over
StepOver(op) == op.tool.diameter * op.step_over_fraction

Stock(x_size, y_size, z_size, x_origin, y_origin, z_top) ==
    [x_size |-> x_size, y_size |-> y_size, z_size |-> z_size,
     x_origin |-> x_origin, y_origin |-> y_origin, z_top |-> z_top]

\* Stock.as_shapely_polygon
AsShapelyPolygon(stock) ==
    Rect(stock.x_origin, stock.y_origin,
         stock.x_origin + stock.x_size, stock.y_origin + stock.y_size)

MeshModel(mesh) == [mesh |-> mesh]

Job(model, stock, operations) ==
    [model |-> model, stock |-> stock, operations |-> operations]

\* Lines 67-77 and 85-91: the planner's parameters, from the operation.
RoughingParamsOf(op) ==
    [tool_radius |-> Radius(op.tool), step_over |-> StepOver(op),
     step_down |-> op.step_down, feed_xy |-> op.feed_xy, feed_z |-> op.feed_z,
     safe_z |-> op.safe_z, rapid_z |-> op.rapid_z,
     finish_allowance |-> op.finish_allowance,
     raster_angle |-> op.raster_angle]

FinishingParamsOf(op) ==
    [tool_radius |-> Radius(op.tool), feed_xy |-> op.feed_xy,
     feed_z |-> op.feed_z, safe_z |-> op.safe_z, rapid_z |-> op.rapid_z,
     extra_offset |-> 0]

\* Lines 62: [sr.polygon for sr in slice_results]
PolygonsOf(slice_results) ==
    [k \in DOMAIN slice_results |-> slice_results[k].polygon]

\* Lines 66-96: the planner the strategy selects.
PlannerOf(op, stock_poly, part_contours, z_levels) ==
    IF op.strategy = ROUGHING
    THEN GenerateRoughingToolpath(stock_poly, part_contours, z_levels,
                                  RoughingParamsOf(op))
    ELSE GenerateFinishingToolpath(part_contours, z_levels,
                                   FinishingParamsOf(op))

\* Lines 98-99
Stamp(tp, op) ==
    [tp EXCEPT !.tool_number = op.tool.number, !.operation_name = op.name]

\* Lines 52-99: the body of the loop for one operation.  An exception of
\* compute_z_levels or of a planner, and a planner that never returns, are
\* the outcome of the body.
PlanOperation(model, stock, op) ==
    LET levels == ComputeZLevels(op.z_top, op.z_bottom, op.step_down)
    IN  IF levels.status # "returned" THEN levels
        ELSE LET z_levels == levels.value
                 slice_results == SliceAtHeights(model.mesh, z_levels).value
                 part_contours == PolygonsOf(slice_results)
                 stock_poly == AsShapelyPolygon(stock)
                 tp == PlannerOf(op, stock_poly, part_contours, z_levels)
             IN  IF tp.status # "returned" THEN tp
                 ELSE Returned(Stamp(tp.value, op))

\* Bound of the jobs drawn.
MaxOperations == 2

\* A block on a wider base, and a block that ends above the deeper levels.
JobMeshes ==
    LET block == <<Piece(Rect(1, 1, 3, 3), <<>>)>>
        base == <<Piece(Rect(1, 1, 4, 4), <<>>)>>
    IN  {<<Slab(0 - 60, 0, ClosedPath(block)),
           Slab(0 - 120, 0 - 61, ClosedPath(base))>>,
         <<Slab(0 - 60, 0, ClosedPath(block))>>}

JobStocks == {Stock(4, 4, 120, 0, 0, 0)}

\* Operations within their documented ranges, and the same with one field
\* out of range: a step_down of 0, a z_bottom at z_top, a
\* step_over_fraction of 0.
JobOperations ==
    LET named == {<<"pocket", Tool(1, 2)>>, <<"profile", Tool(2, 4)>>}
        depths == {<<0 - 90, 45, 1>>, <<0 - 90, 0, 1>>, <<0, 45, 1>>,
                   <<0 - 90, 45, 0>>}
    IN  {Operation(n[1], s, n[2], d[1], d[2], d[3]) :
            n \in named, s \in {ROUGHING, FINISHING}, d \in depths}

Jobs ==
    {Job(m, st, ops) :
        m \in {None} \cup {Some(MeshModel(mesh)) : mesh \in JobMeshes},
        st \in {None} \cup {Some(x) : x \in JobStocks},
        ops \in UNION {[1..n -> JobOperations] : n \in 0..MaxOperations}}

JobInit ==
    /\ job \in Jobs
    /\ ct = [pc |-> "start", i |-> 1, toolpaths |-> <<>>,
             slices |-> 0, plans |-> 0]
    /\ ct_ret = Pending

\* Faulty variant: the stock is looked at before the model.
CheckPrerequisitesStockFirst ==
    /\ ct.pc = "start"
    /\ IF job.stock = None
       THEN /\ ct_ret' = Raised("RuntimeError", "Stock not defined")
            /\ ct' = [ct EXCEPT !.pc = "done"]
       ELSE IF job.model = None
       THEN /\ ct_ret' = Raised("RuntimeError", "No model loaded")
            /\ ct' = [ct EXCEPT !.pc = "done"]
       ELSE /\ ct' = [ct EXCEPT !.pc = "loop"]
            /\ UNCHANGED ct_ret
    /\ UNCHANGED job

\* Lines 44-49
CheckPrerequisites ==
    /\ ct.pc = "start"
    /\ IF job.model = None
       THEN /\ ct_ret' = Raised("RuntimeError", "No model loaded")
            /\ ct' = [ct EXCEPT !.pc = "done"]
       ELSE IF job.stock = None
       THEN /\ ct_ret' = Raised("RuntimeError", "Stock not defined")
            /\ ct' = [ct EXCEPT !.pc = "done"]
       ELSE /\ ct' = [ct EXCEPT !.pc = "loop"]
            /\ UNCHANGED ct_ret
    /\ UNCHANGED job

\* Lines 59-96: slice_at_heights and a planner are called once each in a
\* turn of the loop that gets past compute_z_levels.
CallsOf(op) ==
    IF ComputeZLevels(op.z_top, op.z_bottom, op.step_down).status = "returned"
    THEN 1 ELSE 0

\* Lines 51-100: one turn of the loop.
RunOperation ==
    /\ ct.pc = "loop"
    /\ ct.i <= Len(job.operations)
    /\ LET op == job.operations[ct.i]
           tp == PlanOperation(job.model[1], job.stock[1], op)
       IN  IF tp.status = "returned"
           THEN /\ ct' = [ct EXCEPT !.toolpaths = Append(@, tp.value),
                                    !.i = @ + 1,
                                    !.slices = @ + CallsOf(op),
                                    !.plans = @ + CallsOf(op)]
                /\ UNCHANGED ct_ret
           ELSE /\ ct' = [ct EXCEPT !.pc = "done",
                                    !.slices = @ + CallsOf(op),
                                    !.plans = @ + CallsOf(op)]
                /\ ct_ret' = tp
    /\ UNCHANGED job

\* Line 102
ReturnToolpaths ==
    /\ ct.pc = "loop"
    /\ ct.i > Len(job.operations)
    /\ ct' = [ct EXCEPT !.pc = "done"]
    /\ ct_ret' = Returned(ct.toolpaths)
    /\ UNCHANGED job

JobIdle == job = Idle /\ ct = Idle /\ ct_ret = Idle

(***************************************************************************)
(* core/units.py                                                           *)
(***************************************************************************)

MM == "mm"
INCH == "inch"

\* Faulty variant: the unit word does not follow the units.
GcodeModalAlwaysMetric(units) == <<"G", "2", "1">>

\* Units.gcode_modal
GcodeModal(units) ==
    IF units = INCH THEN <<"G", "2", "0">> ELSE <<"G", "2", "1">>

(***************************************************************************)
(* gcode/gcode_writer.py                                                   *)
(***************************************************************************)

\* The default of fmt's decimals; a number v of the model stands for
\* v / 10^FixedDecimals.
FixedDecimals == 4

RECURSIVE Pow10(_)
Pow10(n) == IF n = 0 THEN 1 ELSE 10 * Pow10(n - 1)

Digit(d) == <<"0", "1", "2", "3", "4", "5", "6", "7", "8", "9">>[d + 1]

\* str of a natural number
RECURSIVE IntStr(_)
IntStr(n) ==
    IF n < 10 THEN <<Digit(n)>> ELSE IntStr(n \div 10) \o <<Digit(n % 10)>>

\* The w digits after the decimal point.
RECURSIVE FracStr(_, _)
FracStr(n, w) ==
    IF w = 0 THEN <<>> ELSE FracStr(n \div 10, w - 1) \o <<Digit(n % 10)>>

\* n / d rounded to the nearest integer, a tie to the even one (n >= 0).
\* The format rounds the double, for which a decimal tie is exact only when
\* the double holds the value exactly; the numbers drawn have no tie.
RoundHalfEven(n, d) ==
    LET q == n \div d
        r == n % d
    IN  IF 2 * r > d \/ (2 * r = d /\ q % 2 = 1) THEN q + 1 ELSE q

\* f"{value:.{decimals}f}"
Fixed(value, decimals) ==
    LET mag == IF value < 0 THEN -value ELSE value
        q == RoundHalfEven(mag, Pow10(FixedDecimals - decimals))
    IN  (IF value < 0 THEN <<"-">> ELSE <<>>)
        \o IntStr(q \div Pow10(decimals))
        \o (IF decimals > 0
            THEN <<".">> \o FracStr(q % Pow10(decimals), decimals)
            ELSE <<>>)

\* str.rstrip(c), c one character
RECURSIVE RStrip(_, _)
RStrip(s, c) ==
    IF s # <<>> /\ Last(s) = c
    THEN RStrip(SubSeq(s, 1, Len(s) - 1), c)
    ELSE s

\* Line 10
Fmt(value, decimals) == RStrip(RStrip(Fixed(value, decimals), "0"), ".")

\* f"{letter}{fmt(v, decimals)}", appended when v is not None
AxisWord(letter, v, decimals) ==
    IF v = None THEN <<>> ELSE << <<letter>> \o Fmt(v[1], decimals) >>

\* sep.join(parts)
RECURSIVE Join(_, _)
Join(parts, sep) ==
    IF parts = <<>> THEN <<>>
    ELSE IF Len(parts) = 1 THEN parts[1]
    ELSE parts[1] \o sep \o Join(Tail(parts), sep)

\* Lines 13-26
Rapid(x, y, z) ==
    Join(<< <<"G", "0">> >>
         \o AxisWord("X", x, FixedDecimals)
         \o AxisWord("Y", y, FixedDecimals)
         \o AxisWord("Z", z, FixedDecimals),
         <<" ">>)

\* Faulty variant: the feed word is never appended.
LinearWithoutFeed(x, y, z, f) ==
    Join(<< <<"G", "1">> >>
         \o AxisWord("X", x, FixedDecimals)
         \o AxisWord("Y", y, FixedDecimals)
         \o AxisWord("Z", z, FixedDecimals),
         <<" ">>)

\* Lines 29-45
Linear(x, y, z, f) ==
    Join(<< <<"G", "1">> >>
         \o AxisWord("X", x, FixedDecimals)
         \o AxisWord("Y", y, FixedDecimals)
         \o AxisWord("Z", z, FixedDecimals)
         \o AxisWord("F", f, 1),
         <<" ">>)

\* str.replace(old, new), old one character
RECURSIVE Replace(_, _, _)
Replace(text, old, new) ==
    IF text = <<>> THEN <<>>
    ELSE (IF Head(text) = old THEN new ELSE <<Head(text)>>)
         \o Replace(Tail(text), old, new)

\* Faulty variant: only the opening parentheses are stripped.
CommentKeepsClosing(text) ==
    <<"(">> \o Replace(text, "(", <<>>) \o <<")">>

\* Lines 48-52
Comment(text) ==
    LET cleaned == Replace(Replace(text, "(", <<>>), ")", <<>>)
    IN  <<"(">> \o cleaned \o <<")">>

\* The longest text drawn.
MaxText == 4

Alphabet == {"a", "(", ")"}

Texts == UNION {[1..n -> Alphabet] : n \in 0..MaxText}

CmInit ==
    /\ cm_args \in Texts
    /\ cm_ret = Pending
    /\ cm_again = Pending

CallComment ==
    /\ cm_ret = Pending
    /\ cm_ret' = Returned(Comment(cm_args))
    /\ UNCHANGED <<cm_args, cm_again>>

\* comment applied to the line it returned
CallCommentAgain ==
    /\ cm_ret # Pending
    /\ cm_again = Pending
    /\ cm_again' = Returned(Comment(cm_ret.value))
    /\ UNCHANGED <<cm_args, cm_ret>>

CmIdle == cm_args = Idle /\ cm_ret = Idle /\ cm_again = Idle

(***************************************************************************)
(* gcode/pathpilot.py: PostProcessorConfig and                             *)
(* PathPilotPostProcessor.get_lines, after section 4.8 of the              *)
(* specification; the lines are built with the helpers of gcode_writer.py. *)
(***************************************************************************)

PostProcessorConfig(units, tool_number, rpm, safe_z, rapid_z, coolant) ==
    [units |-> units, tool_number |-> tool_number, rpm |-> rpm,
     safe_z |-> safe_z, rapid_z |-> rapid_z, coolant |-> coolant]

\* The comment header, the modal words, the unit word, G64, M5, G30,
\* T{n} M6, G43 H{n}, S{rpm} M3 and, with coolant, M8.
Preamble(cfg) ==
    << Comment(<<"T", "o", "o", "l", " ">> \o IntStr(cfg.tool_number)),
       Join(<< <<"G", "1", "7">>, <<"G", "4", "0">>, <<"G", "4", "9">>,
               <<"G", "5", "4">>, <<"G", "8", "0">>, <<"G", "9", "0">>,
               <<"G", "9", "4">> >>, <<" ">>),
       GcodeModal(cfg.units),
       <<"G", "6", "4">>,
       <<"M", "5">>,
       <<"G", "3", "0">>,
       <<"T">> \o IntStr(cfg.tool_number) \o <<" ", "M", "6">>,
       <<"G", "4", "3", " ", "H">> \o IntStr(cfg.tool_number),
       <<"S">> \o IntStr(cfg.rpm) \o <<" ", "M", "3">> >>
    \o (IF cfg.coolant THEN << <<"M", "8">> >> ELSE <<>>)

\* M5, M9, G30, M30 and the trailing % line.
Postamble ==
    << <<"M", "5">>, <<"M", "9">>, <<"G", "3", "0">>, <<"M", "3", "0">>,
       <<"%">> >>

\* What the emitter keeps while lowering: the lines so far, the previous
\* position (None before the first point) and the feed last emitted in the
\* running feed run (None outside one).
Emitter(lines, pos, feed) == [lines |-> lines, pos |-> pos, feed |-> feed]

\* A coordinate is written when it changed from the previous position.
Changed(pos, c, v) == IF pos # None /\ pos[1][c] = v THEN None ELSE Some(v)

\* rapid / retract -> G0, feed / plunge -> G1 with an F word on the first
\* feed of a feed run or when the feed changes.
LowerPoint(em, p) ==
    LET x == Changed(em.pos, 1, p.x)
        y == Changed(em.pos, 2, p.y)
        z == Changed(em.pos, 3, p.z)
        here == Some(<<p.x, p.y, p.z>>)
    IN  IF p.move_type \in {RAPID, RETRACT}
        THEN Emitter(Append(em.lines, Rapid(x, y, z)), here, None)
        ELSE Emitter(Append(em.lines,
                            Linear(x, y, z,
                                   IF p.feed_rate = em.feed THEN None
                                   ELSE p.feed_rate)),
                     here, p.feed_rate)

RECURSIVE LowerPoints(_, _)
LowerPoints(em, points) ==
    IF points = <<>> THEN em
    ELSE LowerPoints(LowerPoint(em, Head(points)), Tail(points))

RECURSIVE LowerSegments(_, _)
LowerSegments(em, segments) ==
    IF segments = <<>> THEN em
    ELSE LowerSegments(LowerPoints(em, Head(segments).points), Tail(segments))

\* For each toolpath a comment naming the operation, then its segments.
RECURSIVE LowerToolpaths(_, _)
LowerToolpaths(em, toolpaths) ==
    IF toolpaths = <<>> THEN em
    ELSE LET tp == Head(toolpaths)
             named == Emitter(Append(em.lines, Comment(tp.operation_name)),
                              em.pos, em.feed)
         IN  LowerToolpaths(LowerSegments(named, tp.segments),
                            Tail(toolpaths))

GetLines(cfg, toolpaths) ==
    Preamble(cfg)
    \o LowerToolpaths(Emitter(<<>>, None, None), toolpaths).lines
    \o Postamble

\* The most toolpaths handed to the post-processor and the highest tool
\* slot of a configuration.
MaxPostToolpaths == 2
MaxSlot == 2

PostConfigs ==
    {PostProcessorConfig(units, n, 3000, 1000, 5000, coolant) :
        units \in {MM, INCH}, n \in 1..MaxSlot, coolant \in BOOLEAN}

\* The segment of tests/test_gcode.py: rapid to (0.5, 0.5, 0.1), plunge
\* to -0.05 at feed 5, two feeds at feed 20, retract to 0.1.
SimpleSegment ==
    ToolpathSegment(
        <<ToolpathPoint(5000, 5000, 1000, RAPID, None),
          ToolpathPoint(5000, 5000, -500, PLUNGE, Some(50000)),
          ToolpathPoint(15000, 5000, -500, FEED, Some(200000)),
          ToolpathPoint(15000, 15000, -500, FEED, Some(200000)),
          ToolpathPoint(15000, 15000, 1000, RETRACT, None)>>,
        -500, "test segment")

\* A feed run that starts without an approach, slows down to feed 5.26 on
\* the way and ends on a point that repeats the position before it.
SlowingSegment ==
    ToolpathSegment(
        <<ToolpathPoint(0, 0, -500, FEED, Some(200000)),
          ToolpathPoint(12500, 0, -500, FEED, Some(52600)),
          ToolpathPoint(12500, 0, -500, FEED, Some(52600))>>,
        -500, "slowing")

\* One feed at feed 5.26.
SlowSegment ==
    ToolpathSegment(<<ToolpathPoint(0, 0, -1000, FEED, Some(52600))>>,
                    -1000, "slow")

\* Toolpath.segments: none, one segment, and two segments that meet feed
\* to feed, retract to feed and feed to rapid.
PostSegmentLists ==
    {<<>>, <<SimpleSegment>>, <<SlowingSegment>>,
     <<SlowingSegment, SlowSegment>>, <<SimpleSegment, SlowingSegment>>,
     <<SlowSegment, SimpleSegment>>}

\* Operation names, one of them with parentheses and a G28 in it.
OperationNames ==
    {<<"o", "p">>, <<"(", "G", "2", "8", ")">>}

PostToolpaths ==
    {Toolpath(segments, 1, name) :
        segments \in PostSegmentLists, name \in OperationNames}

PostToolpathLists ==
    UNION {[1..n -> PostToolpaths] : n \in 0..MaxPostToolpaths}

PpInit ==
    /\ pp_args \in [cfg : PostConfigs, toolpaths : PostToolpathLists]
    /\ pp_ret = Pending

CallGetLines ==
    /\ pp_ret = Pending
    /\ pp_ret' = Returned(GetLines(pp_args.cfg, pp_args.toolpaths))
    /\ UNCHANGED pp_args

PpIdle == pp_args = Idle /\ pp_ret = Idle

(***************************************************************************)
(* core/tool.py: Tool and ToolLibrary                                      *)
(*                                                                         *)
(* A dict is the sequence of its <<key, value>> entries in insertion       *)
(* order.  A dataclass instance and the dict of its fields are records.    *)
(* The diameters and lengths of tools are counted in units of 1e-4.        *)
(***************************************************************************)

FLAT_ENDMILL == [name |-> "FLAT_ENDMILL", value |-> "flat_endmill"]
BALL_ENDMILL == [name |-> "BALL_ENDMILL", value |-> "ball_endmill"]
DRILL == [name |-> "DRILL", value |-> "drill"]
FACE_MILL == [name |-> "FACE_MILL", value |-> "face_mill"]

ToolType == {FLAT_ENDMILL, BALL_ENDMILL, DRILL, FACE_MILL}

\* ToolType(value)
ToolTypeOf(value) == CHOOSE m \in ToolType : m.value = value

\* Tool(number, name, tool_type, diameter, flute_length=...), the other
\* fields at their defaults.
ToolOf(number, name, tool_type, diameter, flute_length) ==
    [number |-> number, name |-> name, tool_type |-> tool_type,
     diameter |-> diameter, flute_count |-> 2,
     flute_length |-> flute_length, overall_length |-> 0,
     default_rpm |-> 0, default_feed_xy |-> 0, default_feed_z |-> 0]

\* Tool.to_dict
ToDict(tool) == [tool EXCEPT !.tool_type = tool.tool_type.value]

\* Faulty variant: the tool kind of the record is not read.
FromDictAlwaysFlat(d) == [d EXCEPT !.tool_type = FLAT_ENDMILL]

\* Tool.from_dict
FromDict(d) == [d EXCEPT !.tool_type = ToolTypeOf(d.tool_type)]

\* Faulty variant: the entry is added next to one with the same key.
DictSetAppends(d, key, value) == Append(d, <<key, value>>)

\* dict[key] = value
DictSet(d, key, value) ==
    IF \E i \in DOMAIN d : d[i][1] = key
    THEN [i \in DOMAIN d |-> IF d[i][1] = key THEN <<key, value>> ELSE d[i]]
    ELSE Append(d, <<key, value>>)

\* dict.pop(key, None)
DictPop(d, key) == SelectSeq(d, LAMBDA e : e[1] # key)

\* dict.get(key)
DictGet(d, key) ==
    IF \E i \in DOMAIN d : d[i][1] = key
    THEN Some(d[CHOOSE i \in DOMAIN d : d[i][1] = key][2])
    ELSE None

\* dict.values()
DictValues(d) == [i \in DOMAIN d |-> d[i][2]]

\* sorted(tools, key=lambda t: t.number): a stable sort
RECURSIVE SortedByNumber(_)
SortedByNumber(tools) ==
    IF tools = <<>> THEN <<>>
    ELSE LET n == Len(tools)
             rest == SortedByNumber(SubSeq(tools, 1, n - 1))
             last == tools[n]
         IN  SelectSeq(rest, LAMBDA t : t.number <= last.number)
             \o <<last>>
             \o SelectSeq(rest, LAMBDA t : t.number > last.number)

\* Line 73
ListTools(tools) == SortedByNumber(DictValues(tools))

\* The fields of a Tool, in the order asdict gives them.
ToolFields ==
    <<"number", "name", "tool_type", "diameter", "flute_count",
      "flute_length", "overall_length", "default_rpm", "default_feed_xy",
      "default_feed_z">>

\* JSON text is the sequence of its tokens.
Punct(c) == [tok |-> c]
Literal(v) == [tok |-> "value", v |-> v]

\* json.dumps of one dict
DumpObject(d) ==
    <<Punct("{")>>
    \o Flatten([k \in DOMAIN ToolFields |->
                   (IF k > 1 THEN <<Punct(",")>> ELSE <<>>)
                   \o <<Literal(ToolFields[k]), Punct(":"),
                        Literal(d[ToolFields[k]])>>])
    \o <<Punct("}")>>

\* json.dumps of a list of dicts
JsonDumps(data) ==
    <<Punct("[")>>
    \o Flatten([k \in DOMAIN data |->
                   (IF k > 1 THEN <<Punct(",")>> ELSE <<>>)
                   \o DumpObject(data[k])])
    \o <<Punct("]")>>

\* The members of an object from token i on: the dict read and the place
\* after the closing brace.
RECURSIVE ParseMembers(_, _, _)
ParseMembers(toks, i, d) ==
    IF toks[i].tok = "}" THEN [value |-> d, next |-> i + 1]
    ELSE IF toks[i].tok = "," THEN ParseMembers(toks, i + 1, d)
    ELSE ParseMembers(toks, i + 3, d @@ (toks[i].v :> toks[i + 2].v))

\* The elements of a list from token i on.
RECURSIVE ParseElements(_, _, _)
ParseElements(toks, i, data) ==
    IF toks[i].tok = "]" THEN data
    ELSE IF toks[i].tok = "," THEN ParseElements(toks, i + 1, data)
    ELSE LET obj == ParseMembers(toks, i + 1, <<>>)
         IN  ParseElements(toks, obj.next, Append(data, obj.value))

\* json.loads of a list of dicts
JsonLoads(toks) == ParseElements(toks, 2, <<>>)

\* Lines 75-78: the text written to the file
SaveText(tools) ==
    LET listed == ListTools(tools)
    IN  JsonDumps([k \in DOMAIN listed |-> ToDict(listed[k])])

\* Lines 82-85: the dict built from the data read
RECURSIVE LoadTools(_, _)
LoadTools(data, tools) ==
    IF data = <<>> THEN tools
    ELSE LET tool == FromDict(Head(data))
         IN  LoadTools(Tail(data), DictSet(tools, tool.number, tool))

\* The highest slot of a tool drawn and the most operations on a library.
MaxLibrarySlot == 2
MaxLibraryOps == 3

LibraryTools ==
    UNION {{ToolOf(n, "flat", FLAT_ENDMILL, 5000, 0),
            ToolOf(n, "ball", BALL_ENDMILL, 2500, 7500)} :
              n \in 1..MaxLibrarySlot}

\* Slot numbers asked for, one of them never stored.
LibraryNumbers == 1..(MaxLibrarySlot + 1)

\* A library on a path without a file.
LibInit ==
    /\ lib_tools = <<>>
    /\ lib_file = None
    /\ lib_log = <<>>
    /\ lib_ret = Pending

Logged(op) ==
    /\ Len(lib_log) < MaxLibraryOps
    /\ lib_log' = Append(lib_log, op)

\* Lines 63-64
Add(tool) ==
    /\ Logged([op |-> "add", tool |-> tool])
    /\ lib_tools' = DictSet(lib_tools, tool.number, tool)
    /\ lib_ret' = Returned(None)
    /\ UNCHANGED lib_file

\* Lines 66-67
Remove(number) ==
    /\ Logged([op |-> "remove", number |-> number])
    /\ lib_tools' = DictPop(lib_tools, number)
    /\ lib_ret' = Returned(None)
    /\ UNCHANGED lib_file

\* Lines 69-70
Get(number) ==
    /\ Logged([op |-> "get", number |-> number])
    /\ lib_ret' = Returned(DictGet(lib_tools, number))
    /\ UNCHANGED <<lib_tools, lib_file>>

\* Lines 72-73
CallListTools ==
    /\ Logged([op |-> "list_tools"])
    /\ lib_ret' = Returned(ListTools(lib_tools))
    /\ UNCHANGED <<lib_tools, lib_file>>

\* Lines 75-78
Save ==
    /\ Logged([op |-> "save"])
    /\ lib_file' = Some(SaveText(lib_tools))
    /\ lib_ret' = Returned(None)
    /\ UNCHANGED lib_tools

\* Lines 80-85; read_text raises when there is no file.
Load ==
    /\ Logged([op |-> "load"])
    /\ IF lib_file = None
       THEN /\ lib_ret' = Raised("FileNotFoundError", "")
            /\ UNCHANGED lib_tools
       ELSE /\ lib_tools' = LoadTools(JsonLoads(lib_file[1]), <<>>)
            /\ lib_ret' = Returned(None)
    /\ UNCHANGED lib_file

LibIdle ==
    lib_tools = Idle /\ lib_file = Idle /\ lib_log = Idle /\ lib_ret = Idle

(***************************************************************************)
(* config/defaults.py and core/recommend.py                                *)
(***************************************************************************)

\* build_default_tool_library: the dict of the four starter tools
DefaultTools ==
    << <<1, [ToolOf(1, "1/2 Flat Endmill 2-flute", FLAT_ENDMILL, 5000, 10000)
                EXCEPT !.overall_length = 30000, !.default_rpm = 3000,
                       !.default_feed_xy = 200000, !.default_feed_z = 50000]>>,
       <<2, [ToolOf(2, "1/4 Flat Endmill 2-flute", FLAT_ENDMILL, 2500, 7500)
                EXCEPT !.overall_length = 25000, !.default_rpm = 5000,
                       !.default_feed_xy = 150000, !.default_feed_z = 40000]>>,
       <<3, [ToolOf(3, "1/4 Ball Endmill 2-flute", BALL_ENDMILL, 2500, 7500)
                EXCEPT !.overall_length = 25000, !.default_rpm = 5000,
                       !.default_feed_xy = 120000, !.default_feed_z = 30000]>>,
       <<4, [ToolOf(4, "1/8 Flat Endmill 2-flute", FLAT_ENDMILL, 1250, 5000)
                EXCEPT !.overall_length = 20000, !.default_rpm = 8000,
                       !.default_feed_xy = 100000, !.default_feed_z = 30000]>> >>

\* max(candidates, key=...) and min(candidates, key=...): the first of the
\* list among those with the extreme diameter
MaxByDiameter(candidates) ==
    candidates[CHOOSE i \in DOMAIN candidates :
                   /\ \A j \in DOMAIN candidates :
                          candidates[j].diameter <= candidates[i].diameter
                   /\ \A j \in 1..(i - 1) :
                          candidates[j].diameter < candidates[i].diameter]

MinByDiameter(candidates) ==
    candidates[CHOOSE i \in DOMAIN candidates :
                   /\ \A j \in DOMAIN candidates :
                          candidates[j].diameter >= candidates[i].diameter
                   /\ \A j \in 1..(i - 1) :
                          candidates[j].diameter > candidates[i].diameter]

\* Faulty variant: the reach of the flutes is not looked at.
PickRoughingToolAnyReach(tools, depth) ==
    LET flats == SelectSeq(tools, LAMBDA t : t.tool_type = FLAT_ENDMILL)
    IN  IF flats = <<>> THEN None ELSE Some(MaxByDiameter(flats))

\* Lines 26-38
PickRoughingTool(tools, depth) ==
    LET reach == IF depth < 0 THEN -depth ELSE depth
        reaching ==
            SelectSeq(tools, LAMBDA t :
                /\ t.tool_type = FLAT_ENDMILL
                /\ (t.flute_length = 0 \/ t.flute_length >= reach))
        flats == SelectSeq(tools, LAMBDA t : t.tool_type = FLAT_ENDMILL)
        candidates == IF reaching = <<>> THEN flats ELSE reaching
    IN  IF candidates = <<>> THEN None ELSE Some(MaxByDiameter(candidates))

\* Lines 41-57; without a roughing tool the diameter limit is 1.0.
PickFinishingTool(tools, roughing_tool) ==
    LET max_dia == IF roughing_tool # None THEN roughing_tool[1].diameter
                   ELSE 10000
        candidates ==
            SelectSeq(tools, LAMBDA t :
                /\ t.tool_type \in {FLAT_ENDMILL, BALL_ENDMILL}
                /\ t.diameter <= max_dia)
        balls == SelectSeq(candidates, LAMBDA t : t.tool_type = BALL_ENDMILL)
    IN  IF candidates = <<>> THEN None
        ELSE IF balls # <<>> THEN Some(MinByDiameter(balls))
        ELSE Some(MinByDiameter(candidates))

\* Operation(...) as lines 98-112 and 127-139 fill it: z_top 0, safe_z 0.1,
\* rapid_z 0.5, feeds and speed of the tool.
RecommendedOperation(label, strategy, tool, depth, step_down, finish_allowance) ==
    [name |-> <<label, tool.name>>, strategy |-> strategy, tool |-> tool,
     z_top |-> 0, z_bottom |-> -depth, step_down |-> step_down,
     step_over_fraction |-> 4000, rpm |-> tool.default_rpm,
     feed_xy |-> tool.default_feed_xy, feed_z |-> tool.default_feed_z,
     safe_z |-> 1000, rapid_z |-> 5000,
     finish_allowance |-> finish_allowance, raster_angle |-> 0]

Recommendation(operations, summary) ==
    [operations |-> operations, summary |-> summary]

\* Lines 60-145; library is the dict of the ToolLibrary, depth the Z extent
\* of the model.
RecommendOperations(depth, library) ==
    LET tools == IF ListTools(library) = <<>> THEN ListTools(DefaultTools)
                 ELSE ListTools(library)
        roughing_tool == PickRoughingTool(tools, depth)
        finishing_tool == PickFinishingTool(tools, roughing_tool)
        extents == <<"Model extents">>
        min_half == IF roughing_tool[1].diameter < 1000
                    THEN roughing_tool[1].diameter ELSE 1000
        roughing ==
            IF roughing_tool = None THEN <<>>
            ELSE <<RecommendedOperation(
                       "Roughing", ROUGHING, roughing_tool[1], depth,
                       RoundHalfEven(min_half, 2),
                       IF finishing_tool # None THEN 50 ELSE 0)>>
        finishing ==
            IF finishing_tool = None THEN <<>>
            ELSE <<RecommendedOperation(
                       "Finishing", FINISHING, finishing_tool[1], depth,
                       RoundHalfEven(finishing_tool[1].diameter, 4), 0)>>
    IN  IF roughing_tool = None /\ finishing_tool = None
        THEN Recommendation(
                 <<>>, extents \o <<"No suitable tools found in library.">>)
        ELSE Recommendation(
                 roughing \o finishing,
                 extents
                 \o (IF roughing_tool = None THEN <<>> ELSE <<"Roughing">>)
                 \o (IF finishing_tool = None THEN <<>> ELSE <<"Finishing">>))

\* The tools a library is drawn from: flat endmills with unknown, long and
\* short flutes, ball endmills below and above diameter 1.0, a drill.
RecommendPool ==
    {ToolOf(1, "flat", FLAT_ENDMILL, 5000, 0),
     ToolOf(2, "small flat", FLAT_ENDMILL, 2500, 7500),
     ToolOf(3, "ball", BALL_ENDMILL, 2500, 7500),
     ToolOf(4, "large ball", BALL_ENDMILL, 20000, 0),
     ToolOf(5, "drill", DRILL, 2500, 0),
     ToolOf(6, "stub flat", FLAT_ENDMILL, 12500, 2000)}

\* A library with the tools of a set, added in ascending slot order.
RECURSIVE LibraryOf(_)
LibraryOf(S) ==
    IF S = {} THEN <<>>
    ELSE LET last == CHOOSE t \in S : \A u \in S : u.number <= t.number
         IN  DictSet(LibraryOf(S \ {last}), last.number, last)

RecInit ==
    /\ rec_args \in [depth : {0, 5000, 10000},
                     library : {LibraryOf(S) : S \in SUBSET RecommendPool}]
    /\ rec_ret = Pending

CallRecommendOperations ==
    /\ rec_ret = Pending
    /\ rec_ret' = Returned(RecommendOperations(rec_args.depth,
                                               rec_args.library))
    /\ UNCHANGED rec_args

RecIdle == rec_args = Idle /\ rec_ret = Idle

(***************************************************************************)
(* gui/main_window.py and gui/workers.py: the host of the pipeline         *)
(*                                                                         *)
(* The handlers of MainWindow run one at a time on the main thread, which  *)
(* takes the signals of the workers from its event queue in the order of   *)
(* their emission.  Each ToolpathWorker runs compute_toolpaths on the one  *)
(* Job of the window, in a thread of its own: between any two reads of the *)
(* job by a worker the main thread may store to it.  A model is its load   *)
(* number, a stock the number of the model whose bounds it wraps, a list   *)
(* of operations the number of the request that made it; a toolpath        *)
(* records the operation it is of and the model and stock read for it.     *)
(***************************************************************************)

\* Bounds of the runs of the host.
MaxLoads == 2
MaxRequests == 2
OpsPerRequest == 2

\* The list made by _on_compute of the operation panel, or by
\* recommend_operations, for request r; Job.operations is empty before.
OperationsOf(r) ==
    IF r = 0 THEN <<>>
    ELSE [k \in 1..OpsPerRequest |-> [request |-> r, index |-> k]]

\* ToolpathWorker(job): the thread before it runs.
ToolpathWorker(r) ==
    [request |-> r, pc |-> "start", ops |-> <<>>, i |-> 1, m |-> 0,
     toolpaths |-> <<>>]

\* The lines set_gcode is given by _on_toolpaths_ready: those of the
\* toolpaths, one program per toolpath.
GcodeOf(toolpaths) == [kind |-> "gcode", of |-> toolpaths]

GuiInit ==
    /\ gui_host = [job |-> [model |-> 0, stock |-> 0, operations |-> 0],
                   pc |-> "idle", model |-> 0, loads |-> 0, requests |-> 0,
                   shown |-> None, gcode |-> [kind |-> "clear"],
                   warned |-> FALSE]
    /\ gui_workers = <<>>
    /\ gui_loaders = {}
    /\ gui_signals = <<>>

\* _start_load_worker
StartLoadWorker ==
    /\ gui_host.pc = "idle"
    /\ gui_host.loads < MaxLoads
    /\ gui_host' = [gui_host EXCEPT !.loads = @ + 1,
                                    !.gcode = [kind |-> "clear"]]
    /\ gui_loaders' = gui_loaders \cup {gui_host.loads + 1}
    /\ UNCHANGED <<gui_workers, gui_signals>>

\* LoadModelWorker.run, of a file that loads.
LoadModelWorkerRun(l) ==
    /\ l \in gui_loaders
    /\ gui_loaders' = gui_loaders \ {l}
    /\ gui_signals' = Append(gui_signals, [kind |-> "loaded", model |-> l])
    /\ UNCHANGED <<gui_host, gui_workers>>

\* _on_model_loaded, lines 126-127
OnModelLoaded ==
    /\ gui_host.pc = "idle"
    /\ gui_signals # <<>>
    /\ Head(gui_signals).kind = "loaded"
    /\ gui_host' = [gui_host EXCEPT !.model = Head(gui_signals).model,
                                    !.job.model = Head(gui_signals).model,
                                    !.pc = "model_set"]
    /\ gui_signals' = Tail(gui_signals)
    /\ UNCHANGED <<gui_workers, gui_loaders>>

\* _on_model_loaded, lines 129-144: the stock that wraps the model.
OnModelLoadedSetStock ==
    /\ gui_host.pc = "model_set"
    /\ gui_host' = [gui_host EXCEPT !.job.stock = gui_host.job.model,
                                    !.pc = "recommend"]
    /\ UNCHANGED <<gui_workers, gui_loaders, gui_signals>>

\* Lines 196-203: the operations are stored in the job and a worker is
\* started on the job.
StartToolpathWorker(preview) ==
    /\ gui_host' = [gui_host EXCEPT
                        !.job.operations = gui_host.requests + 1,
                        !.requests = @ + 1,
                        !.gcode = IF preview THEN [kind |-> "preview"] ELSE @,
                        !.pc = "idle"]
    /\ gui_workers' = Append(gui_workers, ToolpathWorker(gui_host.requests + 1))

\* _run_auto_recommend, called last by _on_model_loaded: nothing more when
\* the library has no suitable tool, else the preview and a compute request
\* with the recommended operations.
RunAutoRecommend ==
    /\ gui_host.pc = "recommend"
    /\ \/ /\ gui_host' = [gui_host EXCEPT !.pc = "idle"]
          /\ UNCHANGED gui_workers
       \/ /\ gui_host.requests < MaxRequests
          /\ StartToolpathWorker(TRUE)
    /\ UNCHANGED <<gui_loaders, gui_signals>>

\* _on_compute_requested, on the Compute button.
OnComputeRequested ==
    /\ gui_host.pc = "idle"
    /\ gui_host.requests < MaxRequests
    /\ IF gui_host.job.model = 0
       THEN /\ gui_host' = [gui_host EXCEPT !.warned = TRUE]
            /\ UNCHANGED gui_workers
       ELSE StartToolpathWorker(FALSE)
    /\ UNCHANGED <<gui_loaders, gui_signals>>

\* ToolpathWorker.run into compute_toolpaths, job.py 44-47.
WorkerCheckPrerequisites(w) ==
    /\ w \in DOMAIN gui_workers
    /\ gui_workers[w].pc = "start"
    /\ IF gui_host.job.model = 0 \/ gui_host.job.stock = 0
       THEN /\ gui_workers' = [gui_workers EXCEPT ![w].pc = "done"]
            /\ gui_signals' = Append(gui_signals, [kind |-> "error"])
       ELSE /\ gui_workers' = [gui_workers EXCEPT ![w].pc = "bind"]
            /\ UNCHANGED gui_signals
    /\ UNCHANGED <<gui_host, gui_loaders>>

\* job.py 51: the loop iterates over the list self.operations is at this
\* moment.
WorkerBindOperations(w) ==
    /\ w \in DOMAIN gui_workers
    /\ gui_workers[w].pc = "bind"
    /\ gui_workers' = [gui_workers EXCEPT
                           ![w].ops = OperationsOf(gui_host.job.operations),
                           ![w].pc = "loop"]
    /\ UNCHANGED <<gui_host, gui_loaders, gui_signals>>

\* job.py 52-62: the mesh of self.model is sliced.
WorkerSlice(w) ==
    /\ w \in DOMAIN gui_workers
    /\ gui_workers[w].pc = "loop"
    /\ gui_workers[w].i <= Len(gui_workers[w].ops)
    /\ gui_workers' = [gui_workers EXCEPT ![w].m = gui_host.job.model,
                                          ![w].pc = "sliced"]
    /\ UNCHANGED <<gui_host, gui_loaders, gui_signals>>

\* job.py 64-100: self.stock is read and the operation planned.
WorkerPlan(w) ==
    /\ w \in DOMAIN gui_workers
    /\ gui_workers[w].pc = "sliced"
    /\ gui_workers' =
           [gui_workers EXCEPT
               ![w].toolpaths =
                   Append(@, [op |-> gui_workers[w].ops[gui_workers[w].i],
                              model |-> gui_workers[w].m,
                              stock |-> gui_host.job.stock]),
               ![w].i = @ + 1,
               ![w].pc = "loop"]
    /\ UNCHANGED <<gui_host, gui_loaders, gui_signals>>

\* job.py 102 and workers.py 25-29: finished is emitted with the list.
WorkerFinished(w) ==
    /\ w \in DOMAIN gui_workers
    /\ gui_workers[w].pc = "loop"
    /\ gui_workers[w].i > Len(gui_workers[w].ops)
    /\ gui_workers' = [gui_workers EXCEPT ![w].pc = "done"]
    /\ gui_signals' = Append(gui_signals,
                             [kind |-> "finished",
                              toolpaths |-> gui_workers[w].toolpaths])
    /\ UNCHANGED <<gui_host, gui_loaders>>

\* _on_toolpaths_ready, and _on_worker_error, which displays nothing but
\* its message.
OnToolpathsReady ==
    /\ gui_host.pc = "idle"
    /\ gui_signals # <<>>
    /\ Head(gui_signals).kind \in {"finished", "error"}
    /\ gui_host' =
           IF Head(gui_signals).kind = "finished"
           THEN [gui_host EXCEPT
                    !.shown = Some(Head(gui_signals).toolpaths),
                    !.gcode = GcodeOf(Head(gui_signals).toolpaths)]
           ELSE [gui_host EXCEPT !.warned = TRUE]
    /\ gui_signals' = Tail(gui_signals)
    /\ UNCHANGED <<gui_workers, gui_loaders>>

GuiIdle ==
    /\ gui_host = Idle
    /\ gui_workers = Idle
    /\ gui_loaders = Idle
    /\ gui_signals = Idle

(***************************************************************************)
(* Specifications                                                          *)
(***************************************************************************)

IdleBut(c) ==
    /\ (c # "zl" => ZLIdle)
    /\ (c # "rough" => RoughIdle)
    /\ (c # "fin" => FinIdle)
    /\ (c # "val" => ValIdle)
    /\ (c # "sl" => SlIdle)
    /\ (c # "job" => JobIdle)
    /\ (c # "cm" => CmIdle)
    /\ (c # "pp" => PpIdle)
    /\ (c # "lib" => LibIdle)
    /\ (c # "rec" => RecIdle)
    /\ (c # "rl" => RasterIdle)
    /\ (c # "gui" => GuiIdle)

StayBut(c) ==
    /\ (c # "zl" => UNCHANGED zl_vars)
    /\ (c # "rough" => UNCHANGED rough_vars)
    /\ (c # "fin" => UNCHANGED fin_vars)
    /\ (c # "val" => UNCHANGED val_vars)
    /\ (c # "sl" => UNCHANGED sl_vars)
    /\ (c # "job" => UNCHANGED job_vars)
    /\ (c # "cm" => UNCHANGED cm_vars)
    /\ (c # "pp" => UNCHANGED pp_vars)
    /\ (c # "lib" => UNCHANGED lib_vars)
    /\ (c # "rec" => UNCHANGED rec_vars)
    /\ (c # "rl" => UNCHANGED rl_vars)
    /\ (c # "gui" => UNCHANGED gui_vars)

InitZLevels == ZLInit /\ IdleBut("zl")
NextZLevels == CallComputeZLevels /\ StayBut("zl")
SpecZLevels == InitZLevels /\ [][NextZLevels]_vars

InitRoughing == RoughInit /\ IdleBut("rough")
NextRoughing == CallGenerateRoughingToolpath /\ StayBut("rough")
SpecRoughing == InitRoughing /\ [][NextRoughing]_vars

InitFinishing == FinInit /\ IdleBut("fin")
NextFinishing ==
    /\ CallGenerateFinishingToolpath \/ CallTraceRing
    /\ StayBut("fin")
SpecFinishing == InitFinishing /\ [][NextFinishing]_vars

InitValidate == ValInit /\ IdleBut("val")
NextValidate == CallValidateToolpaths /\ StayBut("val")
SpecValidate == InitValidate /\ [][NextValidate]_vars

InitSlicer == SlInit /\ IdleBut("sl")
NextSlicer == CallSliceAtHeights /\ StayBut("sl")
SpecSlicer == InitSlicer /\ [][NextSlicer]_vars

\* Either planner.
InitPlanners == InitRoughing \/ InitFinishing
NextPlanners == NextRoughing \/ NextFinishing
SpecPlanners == InitPlanners /\ [][NextPlanners]_vars

InitComment == CmInit /\ IdleBut("cm")
NextComment ==
    /\ CallComment \/ CallCommentAgain
    /\ StayBut("cm")
SpecComment == InitComment /\ [][NextComment]_vars

InitPost == PpInit /\ IdleBut("pp")
NextPost == CallGetLines /\ StayBut("pp")
SpecPost == InitPost /\ [][NextPost]_vars

InitLibrary == LibInit /\ IdleBut("lib")
NextLibrary ==
    /\ \/ \E tool \in LibraryTools : Add(tool)
       \/ \E number \in LibraryNumbers : Remove(number)
       \/ \E number \in LibraryNumbers : Get(number)
       \/ CallListTools
       \/ Save
       \/ Load
    /\ StayBut("lib")
SpecLibrary == InitLibrary /\ [][NextLibrary]_vars

InitRecommend == RecInit /\ IdleBut("rec")
NextRecommend == CallRecommendOperations /\ StayBut("rec")
SpecRecommend == InitRecommend /\ [][NextRecommend]_vars

InitRaster == RasterInit /\ IdleBut("rl")
NextRaster == CallRasterLinesInBounds /\ StayBut("rl")
SpecRaster == InitRaster /\ [][NextRaster]_vars

InitGui == GuiInit /\ IdleBut("gui")
NextGui ==
    \/ StartLoadWorker /\ StayBut("gui")
    \/ (\E l \in 1..MaxLoads : LoadModelWorkerRun(l)) /\ StayBut("gui")
    \/ OnModelLoaded /\ StayBut("gui")
    \/ OnModelLoadedSetStock /\ StayBut("gui")
    \/ RunAutoRecommend /\ StayBut("gui")
    \/ OnComputeRequested /\ StayBut("gui")
    \/ (\E w \in 1..MaxRequests : WorkerCheckPrerequisites(w)) /\ StayBut("gui")
    \/ (\E w \in 1..MaxRequests : WorkerBindOperations(w)) /\ StayBut("gui")
    \/ (\E w \in 1..MaxRequests : WorkerSlice(w)) /\ StayBut("gui")
    \/ (\E w \in 1..MaxRequests : WorkerPlan(w)) /\ StayBut("gui")
    \/ (\E w \in 1..MaxRequests : WorkerFinished(w)) /\ StayBut("gui")
    \/ OnToolpathsReady /\ StayBut("gui")
SpecGui == InitGui /\ [][NextGui]_vars

Init == JobInit /\ IdleBut("job")
Next ==
    \/ CheckPrerequisites /\ StayBut("job")
    \/ RunOperation /\ StayBut("job")
    \/ ReturnToolpaths /\ StayBut("job")
Spec == Init /\ [][Next]_vars

(***************************************************************************)
(* Properties of the roughing planner                                      *)
(***************************************************************************)

RoughReturned == rough_ret.status = "returned"

RoughSegments == rough_ret.value.segments

\* The index (from 0) of the Z level a segment was cut at.
RoughLevelOf(seg) ==
    CHOOSE i \in 0..(Len(rough_args.z_levels) - 1) :
        rough_args.z_levels[i + 1] = seg.z_level

RoughExclusionAt(i) ==
    Exclusion(rough_args.part_contours[
                  ContourIdx(i, Len(rough_args.part_contours)) + 1],
              rough_args.params.tool_radius + rough_args.params.finish_allowance)

CellsAround(x, y) == {<<x - 1, y - 1>>, <<x, y - 1>>, <<x - 1, y>>, <<x, y>>}

\* (x, y) lies in the closed region / in the interior of the region.
InClosed(cells, x, y) == CellsAround(x, y) \cap cells # {}
InInterior(cells, x, y) == CellsAround(x, y) \subseteq cells

InFootprint(r, x, y) == r.x0 <= x /\ x <= r.x1 /\ r.y0 <= y /\ y <= r.y1

Cutting(pt) == pt.move_type \in {PLUNGE, FEED}

\* The points strictly between two points of one horizontal line.
Between(a, b) ==
    {x \in (IF a.x < b.x THEN a.x ELSE b.x)..(IF a.x < b.x THEN b.x ELSE a.x) :
        x # a.x /\ x # b.x}

\* C1: at every Z level of a roughing toolpath, every plunge point and every
\* feed point lies in the level's machinable region: inside the stock
\* footprint and not inside the part cross-section offset outward by
\* tool_radius + finish_allowance.  The same holds of every point the cutter
\* passes between two cutting points.
C1_CuttingStaysInMachinable ==
    RoughReturned =>
        \A s \in DOMAIN RoughSegments :
            LET seg == RoughSegments[s]
                i == RoughLevelOf(seg)
                exclusion == RoughExclusionAt(i)
                machinable == CellsOfRect(rough_args.stock_polygon) \ exclusion
                Safe(x, y) ==
                    /\ InFootprint(rough_args.stock_polygon, x, y)
                    /\ ~InInterior(exclusion, x, y)
                    /\ InClosed(machinable, x, y)
            IN  \A k \in DOMAIN seg.points :
                    LET pt == seg.points[k]
                    IN  /\ Cutting(pt) => Safe(pt.x, pt.y)
                        /\ pt.move_type = FEED =>
                              /\ seg.points[k - 1].y = pt.y
                              /\ \A x \in Between(seg.points[k - 1], pt) :
                                     Safe(x, pt.y)

\* C1, witness: a feed point that touches the boundary of a non-empty
\* exclusion region.
C1_Witness ==
    /\ RoughReturned
    /\ \E s \in DOMAIN RoughSegments :
        \E k \in DOMAIN RoughSegments[s].points :
            LET seg == RoughSegments[s]
                pt == seg.points[k]
                exclusion == RoughExclusionAt(RoughLevelOf(seg))
            IN  /\ pt.move_type = FEED
                /\ rough_args.params.tool_radius > 0
                /\ InClosed(exclusion, pt.x, pt.y)
                /\ ~InInterior(exclusion, pt.x, pt.y)

SameXY(p, q) == p.x = q.x /\ p.y = q.y

\* C2: every segment of a roughing toolpath reads RAPID, PLUNGE, FEED+,
\* (RETRACT, RAPID, PLUNGE, FEED+)*, RETRACT.  Its first point is a rapid and
\* its last a retract; every rapid and every retract is at safe_z; a retract
\* and a plunge keep the (x, y) of the point before them.  So (x, y) changes
\* only on a feed at the level's z or on a rapid at safe_z.
C2_RoughingSegmentShape ==
    RoughReturned =>
        \A s \in DOMAIN RoughSegments :
            LET pts == RoughSegments[s].points
                n == Len(pts)
                z == RoughSegments[s].z_level
                safe_z == rough_args.params.safe_z
                mt(k) == pts[k].move_type
            IN  /\ n >= 4
                /\ mt(1) = RAPID
                /\ mt(n) = RETRACT
                /\ \A k \in 1..n :
                    /\ mt(k) = RAPID =>
                          /\ pts[k].z = safe_z
                          /\ k = 1 \/ mt(k - 1) = RETRACT
                          /\ k < n /\ mt(k + 1) = PLUNGE
                    /\ mt(k) = PLUNGE =>
                          /\ k > 1 /\ mt(k - 1) = RAPID
                          /\ SameXY(pts[k], pts[k - 1])
                          /\ k < n /\ mt(k + 1) = FEED
                    /\ mt(k) = FEED =>
                          /\ k > 1 /\ mt(k - 1) \in {PLUNGE, FEED}
                          /\ k < n /\ mt(k + 1) \in {FEED, RETRACT}
                    /\ mt(k) = RETRACT =>
                          /\ pts[k].z = safe_z
                          /\ k > 1 /\ mt(k - 1) = FEED
                          /\ SameXY(pts[k], pts[k - 1])
                          /\ k = n \/ mt(k + 1) = RAPID
                    /\ (k > 1 /\ ~SameXY(pts[k], pts[k - 1])) =>
                          \/ mt(k) = FEED /\ pts[k].z = z
                          \/ mt(k) = RAPID /\ pts[k].z = safe_z
                                           /\ pts[k - 1].z = safe_z

\* C2, witness: a segment with a retract, rapid, plunge transition between
\* two clipped lines.
C2_Witness ==
    /\ RoughReturned
    /\ \E s \in DOMAIN RoughSegments :
        \E k \in 2..(Len(RoughSegments[s].points) - 1) :
            /\ RoughSegments[s].points[k].move_type = RETRACT
            /\ RoughSegments[s].points[k + 1].move_type = RAPID
            /\ ~SameXY(RoughSegments[s].points[k], RoughSegments[s].points[k + 1])

\* C3: in a roughing toolpath a plunge point has feed_rate = feed_z and a
\* feed point feed_rate = feed_xy, both at the z of their segment; a rapid or
\* retract point is at safe_z and has no feed rate; the z of every segment is
\* one of the requested Z levels.
C3_RoughingFeedsAndHeights ==
    RoughReturned =>
        \A s \in DOMAIN RoughSegments :
            LET seg == RoughSegments[s]
                params == rough_args.params
            IN  /\ seg.z_level \in Range(rough_args.z_levels)
                /\ \A k \in DOMAIN seg.points :
                    LET pt == seg.points[k]
                    IN  /\ pt.move_type \in {RAPID, FEED, PLUNGE, RETRACT}
                        /\ pt.move_type = PLUNGE =>
                              pt.feed_rate = Some(params.feed_z) /\ pt.z = seg.z_level
                        /\ pt.move_type = FEED =>
                              pt.feed_rate = Some(params.feed_xy) /\ pt.z = seg.z_level
                        /\ pt.move_type \in {RAPID, RETRACT} =>
                              pt.feed_rate = None /\ pt.z = params.safe_z

\* C3, witness: a toolpath with segments at two Z levels, each with a plunge
\* and a feed.
C3_Witness ==
    /\ RoughReturned
    /\ Len(RoughSegments) >= 2
    /\ RoughSegments[1].z_level # RoughSegments[2].z_level
    /\ \A s \in DOMAIN RoughSegments :
        /\ \E k \in DOMAIN RoughSegments[s].points :
               RoughSegments[s].points[k].move_type = PLUNGE
        /\ \E k \in DOMAIN RoughSegments[s].points :
               RoughSegments[s].points[k].move_type = FEED

(***************************************************************************)
(* Properties of the finishing planner                                     *)
(***************************************************************************)

\* The segments a finishing call produced: those of the toolpath, or the
\* traced ring when it is not empty.
FinSegments ==
    IF fin_args.call = "generate_finishing_toolpath"
    THEN fin_ret.value.segments
    ELSE NonEmptySegments(<<fin_ret.value>>)

\* C4: every segment of a finishing toolpath is a closed loop: a rapid to
\* (x0, y0, safe_z), a plunge to (x0, y0, z) at feed_z, one or more feeds at z
\* at feed_xy of which the last is back at (x0, y0), and a retract to
\* (x0, y0, safe_z); z is the Z level of the segment.
C4_FinishingClosedLoop ==
    fin_ret.status = "returned" =>
        \A s \in DOMAIN FinSegments :
            LET seg == FinSegments[s]
                pts == seg.points
                n == Len(pts)
                params == fin_args.params
            IN  /\ n >= 4
                /\ pts[1].move_type = RAPID /\ pts[1].z = params.safe_z
                /\ pts[1].feed_rate = None
                /\ pts[2].move_type = PLUNGE /\ pts[2].z = seg.z_level
                /\ pts[2].feed_rate = Some(params.feed_z)
                /\ SameXY(pts[2], pts[1])
                /\ \A k \in 3..(n - 1) :
                       /\ pts[k].move_type = FEED
                       /\ pts[k].z = seg.z_level
                       /\ pts[k].feed_rate = Some(params.feed_xy)
                /\ SameXY(pts[n - 1], pts[2])
                /\ pts[n].move_type = RETRACT /\ pts[n].z = params.safe_z
                /\ pts[n].feed_rate = None
                /\ SameXY(pts[n], pts[1])
                /\ fin_args.call = "generate_finishing_toolpath" =>
                       seg.z_level \in Range(fin_args.z_levels)

\* C4, witness: a finishing toolpath with the loop around a part and the
\* loop inside its pocket, at two Z levels.
C4_Witness ==
    /\ fin_ret.status = "returned"
    /\ fin_args.call = "generate_finishing_toolpath"
    /\ \E s, t \in DOMAIN FinSegments :
        /\ FinSegments[s].label[1] = "finish ext"
        /\ FinSegments[t].label[1] = "finish int"
        /\ FinSegments[s].z_level # FinSegments[t].z_level

(***************************************************************************)
(* Properties of the validator                                             *)
(***************************************************************************)

OutsideTravel(pt, e) ==
    \/ pt.x < e.x_min \/ pt.x > e.x_max
    \/ pt.y < e.y_min \/ pt.y > e.y_max
    \/ pt.z < e.z_min \/ pt.z > e.z_max

\* Every point of every toolpath that is not empty.
PointsValidated(toolpaths) ==
    UNION {UNION {Range(toolpaths[t].segments[g].points) :
                     g \in DOMAIN toolpaths[t].segments} :
              t \in {u \in DOMAIN toolpaths : ~ToolpathIsEmpty(toolpaths[u])}}

\* C5: validate_toolpaths always returns, and its result has an issue of
\* severity error exactly when rpm is below min_rpm or above max_rpm, or some
\* point of a toolpath that is not empty lies outside the travel of an axis.
\* The limits are inclusive: a point on a limit is not outside.
C5_ErrorsIffOutOfLimits ==
    val_ret # Pending =>
        /\ val_ret.status = "returned"
        /\ HasErrors(val_ret.value) <=>
              \/ val_args.rpm < val_args.envelope.min_rpm
              \/ val_args.rpm > val_args.envelope.max_rpm
              \/ \E pt \in PointsValidated(val_args.toolpaths) :
                     OutsideTravel(pt, val_args.envelope)

\* C5, witness: with the spindle speed in range, a result that has an error
\* for a point beyond a limit, next to a point on the limits that has none.
C5_Witness ==
    /\ val_ret.status = "returned"
    /\ val_args.rpm >= val_args.envelope.min_rpm
    /\ val_args.rpm <= val_args.envelope.max_rpm
    /\ HasErrors(val_ret.value)
    /\ \E pt \in PointsValidated(val_args.toolpaths) :
        /\ pt.x = val_args.envelope.x_max
        /\ pt.z = val_args.envelope.z_max
        /\ \A k \in DOMAIN val_ret.value.issues :
               val_ret.value.issues[k].point # Some(pt)

(***************************************************************************)
(* Properties of the slicer                                                *)
(***************************************************************************)

\* What the plane at height h cuts from the mesh.
SectionAt(mesh, h) == SectionMultiplane(mesh, <<h>>)[1]

\* C9: slice_at_heights returns one SliceResult per height, in the order of
\* the heights, the i-th with z = heights[i]; a height that misses the mesh,
\* or whose section has no polygon or cannot be converted, has the empty
\* polygon; no heights give no results.
C9_OneSlicePerHeight ==
    sl_ret # Pending =>
        /\ sl_ret.status = "returned"
        /\ Len(sl_ret.value) = Len(sl_args.heights)
        /\ \A i \in DOMAIN sl_args.heights :
            LET section == SectionAt(sl_args.mesh, sl_args.heights[i])
            IN  /\ sl_ret.value[i].z = sl_args.heights[i]
                /\ section.kind \in {"none", "open", "broken"} =>
                       IsEmpty(sl_ret.value[i].polygon)
                /\ section.kind = "closed" =>
                       sl_ret.value[i].polygon = section.polygons

\* C9, witness: three heights of which the second misses the mesh and the
\* third cuts a section that cannot be converted.
C9_Witness ==
    /\ sl_ret.status = "returned"
    /\ Len(sl_args.heights) = 3
    /\ SectionAt(sl_args.mesh, sl_args.heights[1]).kind = "closed"
    /\ SectionAt(sl_args.mesh, sl_args.heights[2]).kind = "none"
    /\ SectionAt(sl_args.mesh, sl_args.heights[3]).kind = "broken"

(***************************************************************************)
(* Properties of the Z-level generator                                     *)
(***************************************************************************)

ZLValid == zl_args.step_down > 0 /\ zl_args.z_bottom < zl_args.z_top

StrictlyDescending(s) == \A i \in 1..(Len(s) - 1) : s[i] > s[i + 1]

\* C6: for step_down > 0 and z_bottom < z_top, compute_z_levels returns a
\* list with at least one element, strictly descending, with no value below
\* z_bottom, whose last element is exactly z_bottom.
C6_FloorPassExact ==
    (zl_ret # Pending /\ ZLValid) =>
        /\ zl_ret.status = "returned"
        /\ Len(zl_ret.value) >= 1
        /\ StrictlyDescending(zl_ret.value)
        /\ \A i \in DOMAIN zl_ret.value : zl_ret.value[i] >= zl_args.z_bottom
        /\ Last(zl_ret.value) = zl_args.z_bottom

\* r is v rounded to 10 decimals.
IsRounded10(r, v) ==
    /\ r % Ulp = 0
    /\ 2 * (r - v) <= Ulp
    /\ 2 * (v - r) <= Ulp

C8_RaisesIffInvalid ==
    zl_ret # Pending =>
        /\ zl_ret.status \in {"returned", "raised"}
        /\ zl_ret.status = "raised" <=> ~ZLValid
        /\ zl_ret.status = "raised" =>
              /\ zl_ret.error = "ValueError"
              /\ "value" \notin DOMAIN zl_ret
              /\ zl_ret.message = IF zl_args.step_down <= 0
                                  THEN "step_down must be positive"
                                  ELSE "z_bottom must be less than z_top"

\* C8, witness: both checks fail and the error names step_down.
C8_Witness ==
    /\ zl_ret.status = "raised"
    /\ zl_args.step_down <= 0
    /\ zl_args.z_bottom >= zl_args.z_top
    /\ zl_ret.message = "step_down must be positive"

(***************************************************************************)
(* Properties of the job orchestrator                                      *)
(***************************************************************************)

JobReady == job.model # None /\ job.stock # None

\* What the planner named by the operation's tag makes of the operation.
PlannedBy(op) ==
    LET z_levels == ComputeZLevels(op.z_top, op.z_bottom, op.step_down).value
        part_contours ==
            PolygonsOf(SliceAtHeights(job.model[1].mesh, z_levels).value)
    IN  IF op.strategy = ROUGHING
        THEN GenerateRoughingToolpath(AsShapelyPolygon(job.stock[1]),
                                      part_contours, z_levels,
                                      RoughingParamsOf(op)).value
        ELSE GenerateFinishingToolpath(part_contours, z_levels,
                                       FinishingParamsOf(op)).value

\* The list has one toolpath per operation, in the order of the operations,
\* each with its operation's tool number and name and the segments of the
\* planner that the operation's tag names.
OneToolpathPerOperation(toolpaths) ==
    /\ Len(toolpaths) = Len(job.operations)
    /\ \A i \in DOMAIN job.operations :
        /\ toolpaths[i].tool_number = job.operations[i].tool.number
        /\ toolpaths[i].operation_name = job.operations[i].name
        /\ toolpaths[i].segments = PlannedBy(job.operations[i]).segments

\* C10: for a job whose model and stock are set, compute_toolpaths returns
\* exactly one toolpath per operation, in declaration order, the i-th with
\* the i-th operation's tool slot number and name; a roughing operation is
\* planned by the roughing planner and every other by the finishing planner.
C10_OneToolpathPerOperation ==
    (JobReady /\ ct.pc = "done") =>
        /\ ct_ret.status = "returned"
        /\ OneToolpathPerOperation(ct_ret.value)

\* C11: compute_toolpaths fails before it slices or plans anything when the
\* job's model is unset, which is looked at first, or its stock is unset:
\* the call ends in the error, no toolpath has been made and none is
\* returned; and no step of the call changes the job.
C11_FailsOnMissingPrerequisite ==
    /\ [](((~JobReady) /\ ct.pc = "done") =>
            /\ ct_ret.status = "raised"
            /\ ct_ret.error = "RuntimeError"
            /\ ct_ret.message = IF job.model = None THEN "No model loaded"
                                ELSE "Stock not defined"
            /\ "value" \notin DOMAIN ct_ret
            /\ ct.toolpaths = <<>>
            /\ ct.slices = 0
            /\ ct.plans = 0)
    /\ [][job' = job]_vars

\* C11, witness: a job with operations and neither model nor stock, whose
\* call has ended in the error about the model.
C11_Witness ==
    /\ ct.pc = "done"
    /\ job.model = None
    /\ job.stock = None
    /\ job.operations # <<>>
    /\ ct_ret.status = "raised"
    /\ ct_ret.message = "No model loaded"

(***************************************************************************)
(* Further properties of the roughing planner                              *)
(***************************************************************************)

RoughLevels == 0..(Len(rough_args.z_levels) - 1)

\* Nothing of the stock is left at level i (from 0) once the inflated part
\* is taken out.
RoughNothingToCut(i) ==
    CellsOfRect(rough_args.stock_polygon) \subseteq RoughExclusionAt(i)

\* C12: in generate_roughing_toolpath a Z level whose machinable region is
\* empty raises no error and contributes no segment; when every level is
\* such the call returns a toolpath with no segment, for which is_empty is
\* true.  No roughing toolpath holds an empty segment.
C12_EmptyMachinableIsSkipped ==
    (rough_ret # Pending /\ rough_args.part_contours # <<>>) =>
        /\ (\A i \in RoughLevels : RoughNothingToCut(i)) =>
              /\ RoughReturned
              /\ RoughSegments = <<>>
              /\ ToolpathIsEmpty(rough_ret.value)
        /\ RoughReturned =>
              /\ \A s \in DOMAIN RoughSegments :
                     /\ RoughSegments[s].points # <<>>
                     /\ ~RoughNothingToCut(RoughLevelOf(RoughSegments[s]))
              /\ Len(RoughSegments)
                     <= Cardinality({i \in RoughLevels : ~RoughNothingToCut(i)})

\* C12, witness: two levels, the first with something to cut and a segment,
\* the second covered by the inflated part.
C12_Witness ==
    /\ RoughReturned
    /\ Len(rough_args.z_levels) = 2
    /\ rough_args.part_contours # <<>>
    /\ ~RoughNothingToCut(0)
    /\ RoughNothingToCut(1)
    /\ Len(RoughSegments) = 1
    /\ RoughSegments[1].z_level = rough_args.z_levels[1]

(***************************************************************************)
(* Properties of both planners                                             *)
(***************************************************************************)

MinOf(a, b) == IF a < b THEN a ELSE b

\* The cross-section that level i (from 0) reuses: number min(i, n - 1) of
\* the n supplied.
ReusedContour(part_contours, i) ==
    part_contours[MinOf(i, Len(part_contours) - 1) + 1]

\* The segments the roughing planner makes when level i is planned against
\* cross-section min(i, n - 1).
RECURSIVE RoughSegmentsReusing(_)
RoughSegmentsReusing(i) ==
    IF i >= Len(rough_args.z_levels) THEN <<>>
    ELSE LET params == rough_args.params
             left == CellsOfRect(rough_args.stock_polygon)
                     \ Exclusion(ReusedContour(rough_args.part_contours, i),
                                 params.tool_radius + params.finish_allowance)
             seg == RasterZigzagAtLevel(left, rough_args.z_levels[i + 1], params)
         IN  (IF left = {} \/ seg.points = <<>> THEN <<>> ELSE <<seg>>)
             \o RoughSegmentsReusing(i + 1)

\* The same for the finishing planner.
RECURSIVE FinSegmentsReusing(_)
FinSegmentsReusing(i) ==
    IF i >= Len(fin_args.z_levels) THEN <<>>
    ELSE LET params == fin_args.params
         IN  FinishingPieces(ReusedContour(fin_args.part_contours, i), 1,
                             params.tool_radius + params.extra_offset,
                             fin_args.z_levels[i + 1], params)
             \o FinSegmentsReusing(i + 1)

\* C13: both planners accept a cross-section list of any length n smaller
\* than the number of Z levels: the call does not raise, and level i is
\* planned against cross-section min(i, n - 1).
C13_ShorterContourListAccepted ==
    /\ (/\ rough_ret.status \in {"returned", "raised", "diverged"}
        /\ Len(rough_args.part_contours) < Len(rough_args.z_levels)) =>
           /\ rough_ret.status # "raised"
           /\ RoughReturned => RoughSegments = RoughSegmentsReusing(0)
    /\ (/\ fin_ret.status \in {"returned", "raised"}
        /\ fin_args.call = "generate_finishing_toolpath"
        /\ Len(fin_args.part_contours) < Len(fin_args.z_levels)) =>
           /\ fin_ret.status # "raised"
           /\ fin_ret.value.segments = FinSegmentsReusing(0)

(***************************************************************************)
(* Further properties of the finishing planner                             *)
(***************************************************************************)

\* The rings of a piece offset outward by d: its outline moved outward, then
\* each hole that the offset leaves open, in order.
OffsetRings(piece, d, z) ==
    LET outer == Rect(piece.outer.x0 - d, piece.outer.y0 - d,
                      piece.outer.x1 + d, piece.outer.y1 + d)
        hole(h) == Rect(piece.holes[h].x0 + d, piece.holes[h].y0 + d,
                        piece.holes[h].x1 - d, piece.holes[h].y1 - d)
        open == SelectSeq([h \in 1..Len(piece.holes) |-> h],
                          LAMBDA h : hole(h).x0 < hole(h).x1
                                     /\ hole(h).y0 < hole(h).y1)
    IN  <<[kind |-> "finish ext", z |-> z, ring |-> outer]>>
        \o [k \in 1..Len(open) |->
               [kind |-> "finish int", z |-> z, ring |-> hole(open[k])]]

\* The rings of all levels of a finishing call, level by level, piece by
\* piece.
FinRings ==
    LET d == fin_args.params.tool_radius + fin_args.params.extra_offset
        LevelRings(i) ==
            LET contour == ReusedContour(fin_args.part_contours, i - 1)
            IN  Flatten([k \in 1..Len(contour) |->
                            OffsetRings(contour[k], d, fin_args.z_levels[i])])
    IN  Flatten([i \in 1..Len(fin_args.z_levels) |-> LevelRings(i)])

CornersOf(r) == {<<r.x0, r.y0>>, <<r.x1, r.y0>>, <<r.x1, r.y1>>, <<r.x0, r.y1>>}

FinToolpathReturned ==
    /\ fin_ret.status = "returned"
    /\ fin_args.call = "generate_finishing_toolpath"

\* C14: for each Z level generate_finishing_toolpath emits exactly one
\* segment per ring of the offset cross-section, for each piece the exterior
\* ring and then its interior rings in order; a segment goes around its ring
\* and nothing links it to the next: its only rapid is its first point and
\* its only retract its last.  An empty cross-section contributes no
\* segment, and cross-sections that are all empty give an empty toolpath.
C14_OneLoopPerRing ==
    (FinToolpathReturned /\ fin_args.part_contours # <<>>) =>
        LET segs == fin_ret.value.segments
            rings == FinRings
        IN  /\ Len(segs) = Len(rings)
            /\ \A k \in DOMAIN segs :
                LET pts == segs[k].points
                IN  /\ segs[k].z_level = rings[k].z
                    /\ segs[k].label[1] = rings[k].kind
                    /\ {<<pts[j].x, pts[j].y>> : j \in DOMAIN pts}
                           = CornersOf(rings[k].ring)
                    /\ {j \in DOMAIN pts : pts[j].move_type = RAPID} = {1}
                    /\ {j \in DOMAIN pts : pts[j].move_type = RETRACT}
                           = {Len(pts)}
            /\ (\A c \in DOMAIN fin_args.part_contours :
                    IsEmpty(fin_args.part_contours[c])) =>
                   segs = <<>> /\ ToolpathIsEmpty(fin_ret.value)

\* C14, witness: an empty cross-section at the first level, and at the
\* second a frame whose pocket stays open: the loop around the frame, then
\* the loop inside the pocket.
C14_Witness ==
    /\ FinToolpathReturned
    /\ Len(fin_args.part_contours) = 2
    /\ IsEmpty(fin_args.part_contours[1])
    /\ Len(fin_ret.value.segments) = 2
    /\ fin_ret.value.segments[1].label[1] = "finish ext"
    /\ fin_ret.value.segments[2].label[1] = "finish int"
    /\ fin_ret.value.segments[2].z_level = fin_args.z_levels[2]

\* The segments of a returned planner call, of either planner.
PlannerSegments ==
    IF RoughReturned THEN RoughSegments
    ELSE IF FinToolpathReturned THEN fin_ret.value.segments
    ELSE <<>>

PlannerZLevels == IF RoughReturned THEN rough_args.z_levels ELSE fin_args.z_levels

\* C15: given a descending Z-level list, the segments of a toolpath of
\* either planner are in Z-descending order: no segment is at a higher z
\* than the segment before it; and the roughing planner emits at most one
\* segment per Z level, so that the z of its segments descends strictly.
C15_SegmentsDescend ==
    ((RoughReturned \/ FinToolpathReturned)
         /\ StrictlyDescending(PlannerZLevels)) =>
        LET segs == PlannerSegments
        IN  /\ \A s \in DOMAIN segs : \A t \in DOMAIN segs :
                   s < t => segs[s].z_level >= segs[t].z_level
            /\ RoughReturned =>
                  /\ \A s \in DOMAIN segs : \A t \in DOMAIN segs :
                         s < t => segs[s].z_level > segs[t].z_level
                  /\ \A k \in DOMAIN rough_args.z_levels :
                         Cardinality({s \in DOMAIN segs :
                             segs[s].z_level = rough_args.z_levels[k]}) <= 1

\* C15, witness: a finishing toolpath with two loops at one level followed
\* by a loop at a deeper level.
C15_Witness ==
    /\ FinToolpathReturned
    /\ \E s \in DOMAIN fin_ret.value.segments :
        /\ s + 2 \in DOMAIN fin_ret.value.segments
        /\ fin_ret.value.segments[s].z_level
               = fin_ret.value.segments[s + 1].z_level
        /\ fin_ret.value.segments[s + 1].z_level
               > fin_ret.value.segments[s + 2].z_level

(***************************************************************************)
(* Further properties of the validator                                     *)
(***************************************************************************)

\* The places <<toolpath, segment, point>> of the points whose feed is set
\* and above max_feed.
FeedOverPlaces(toolpaths, e) ==
    UNION {UNION {{<<t, g, j>> :
                      j \in {i \in DOMAIN toolpaths[t].segments[g].points :
                                LET pt == toolpaths[t].segments[g].points[i]
                                IN  /\ pt.feed_rate # None
                                    /\ pt.feed_rate[1] > e.max_feed}} :
                     g \in DOMAIN toolpaths[t].segments} :
              t \in DOMAIN toolpaths}

\* No toolpath of the list has a point.
NoPointAtAll(toolpaths) ==
    \A t \in DOMAIN toolpaths : \A g \in DOMAIN toolpaths[t].segments :
        toolpaths[t].segments[g].points = <<>>

IssuesWith(result, message) ==
    {k \in DOMAIN result.issues : result.issues[k].message = message}

\* C16: validate_toolpaths gives warnings, never errors, for exactly two
\* conditions: one warning for each point whose feed is set and exceeds
\* max_feed, and one warning that all toolpaths are empty exactly when every
\* toolpath of the list is empty, as is the case for a list without
\* toolpaths and for toolpaths that hold only empty segments.
C16_WarningsForFeedAndEmpty ==
    val_ret.status = "returned" =>
        LET issues == val_ret.value.issues
            warnings == {k \in DOMAIN issues : issues[k].severity = "warning"}
            feed == IssuesWith(val_ret.value, "Feed exceeds machine max")
            empty == IssuesWith(val_ret.value, "All toolpaths are empty")
            over == FeedOverPlaces(val_args.toolpaths, val_args.envelope)
        IN  /\ warnings = feed \cup empty
            /\ Cardinality(feed) = Cardinality(over)
            /\ \A k \in feed :
                   \E q \in over :
                       issues[k].point = Some(val_args.toolpaths[q[1]]
                                                  .segments[q[2]].points[q[3]])
            /\ Cardinality(empty)
                   = IF NoPointAtAll(val_args.toolpaths) THEN 1 ELSE 0

\* C16, witness: a toolpath that holds only an empty segment next to a
\* toolpath with a point above max_feed: one warning, for the feed.
C16_Witness ==
    /\ val_ret.status = "returned"
    /\ Len(val_args.toolpaths) = 2
    /\ val_args.toolpaths[1].segments # <<>>
    /\ ToolpathIsEmpty(val_args.toolpaths[1])
    /\ FeedOverPlaces(val_args.toolpaths, val_args.envelope) # {}
    /\ Cardinality({k \in DOMAIN val_ret.value.issues :
                       val_ret.value.issues[k].severity = "warning"}) = 1

(***************************************************************************)
(* The post-processor                                                      *)
(***************************************************************************)

PostReturned == pp_ret.status = "returned"
PostLines == pp_ret.value

\* line.split(" ")
RECURSIVE Words(_)
Words(line) ==
    IF \E i \in DOMAIN line : line[i] = " "
    THEN LET i == CHOOSE j \in DOMAIN line :
                      line[j] = " " /\ \A k \in 1..(j - 1) : line[k] # " "
         IN  <<SubSeq(line, 1, i - 1)>> \o Words(SubSeq(line, i + 1, Len(line)))
    ELSE <<line>>

IsCommentLine(line) ==
    Len(line) >= 2 /\ Head(line) = "(" /\ Last(line) = ")"

\* A line whose command word is G0 or G1.
IsMotionLine(line) == Words(line)[1] \in {<<"G", "0">>, <<"G", "1">>}

\* The number of lines of the preamble.
PreambleLen == IF pp_args.cfg.coolant THEN 10 ELSE 9

\* C17: every emitted program starts with the comment header, the modal
\* words G17 G40 G49 G54 G80 G90 G94, the unit word (G20 for inch, G21 for
\* mm), G64, M5, G30, T{n} M6, G43 H{n}, S{rpm} M3, then M8 when and only
\* when coolant is on; it ends with M5, M9, G30, M30 and %, the last line;
\* every motion line lies between the two blocks.
C17_PreambleAndPostamble ==
    PostReturned =>
        LET lines == PostLines
            cfg == pp_args.cfg
            n == Len(lines)
            slot == IntStr(cfg.tool_number)
        IN  /\ n >= PreambleLen + 5
            /\ IsCommentLine(lines[1])
            /\ Words(lines[2]) = << <<"G", "1", "7">>, <<"G", "4", "0">>,
                                    <<"G", "4", "9">>, <<"G", "5", "4">>,
                                    <<"G", "8", "0">>, <<"G", "9", "0">>,
                                    <<"G", "9", "4">> >>
            /\ (cfg.units = INCH => lines[3] = <<"G", "2", "0">>)
            /\ (cfg.units = MM => lines[3] = <<"G", "2", "1">>)
            /\ lines[4] = <<"G", "6", "4">>
            /\ lines[5] = <<"M", "5">>
            /\ lines[6] = <<"G", "3", "0">>
            /\ Words(lines[7]) = <<<<"T">> \o slot, <<"M", "6">>>>
            /\ Words(lines[8]) = <<<<"G", "4", "3">>, <<"H">> \o slot>>
            /\ Words(lines[9]) = <<<<"S">> \o IntStr(cfg.rpm), <<"M", "3">>>>
            /\ (cfg.coolant => lines[10] = <<"M", "8">>)
            /\ (~cfg.coolant => \A i \in 1..n : lines[i] # <<"M", "8">>)
            /\ lines[n - 4] = <<"M", "5">>
            /\ lines[n - 3] = <<"M", "9">>
            /\ lines[n - 2] = <<"G", "3", "0">>
            /\ lines[n - 1] = <<"M", "3", "0">>
            /\ lines[n] = <<"%">>
            /\ \A i \in 1..n :
                   IsMotionLine(lines[i]) => PreambleLen < i /\ i < n - 4

\* C17, witness: an inch program with coolant, for tool slot 2, with motion lines.
C17_Witness ==
    /\ PostReturned
    /\ pp_args.cfg.units = INCH
    /\ pp_args.cfg.coolant
    /\ pp_args.cfg.tool_number = 2
    /\ \E i \in DOMAIN PostLines : IsMotionLine(PostLines[i])

\* sub in line
Contains(line, sub) ==
    \E i \in 1..(Len(line) - Len(sub) + 1) :
        SubSeq(line, i, i + Len(sub) - 1) = sub

\* C18: whatever the toolpaths and the configuration, no emitted line
\* contains the text G28, the comment lines made from operation names
\* included.
C18_NoG28InAnyLine ==
    PostReturned =>
        \A i \in DOMAIN PostLines :
            ~Contains(PostLines[i], <<"G", "2", "8">>)

\* The points of a toolpath, segment after segment.
PointsOfToolpath(tp) ==
    Flatten([g \in DOMAIN tp.segments |-> tp.segments[g].points])

\* The points handed to the post-processor: toolpath, then segment, then
\* point.
PostPoints ==
    Flatten([t \in DOMAIN pp_args.toolpaths |->
                 PointsOfToolpath(pp_args.toolpaths[t])])

\* The lines between the preamble and the postamble.
PostBody == SubSeq(PostLines, PreambleLen + 1, Len(PostLines) - 5)

PostMotionLines == SelectSeq(PostBody, IsMotionLine)

Cuts(p) == p.move_type \in {FEED, PLUNGE}

\* The words a point is to be lowered to, given the point before it (None
\* for the first point).
ExpectedWords(prev, p) ==
    LET first == prev = None
        q == IF first THEN p ELSE prev[1]
    IN  << IF Cuts(p) THEN <<"G", "1">> ELSE <<"G", "0">> >>
        \o (IF first \/ q.x # p.x
            THEN << <<"X">> \o Fmt(p.x, 4) >> ELSE <<>>)
        \o (IF first \/ q.y # p.y
            THEN << <<"Y">> \o Fmt(p.y, 4) >> ELSE <<>>)
        \o (IF first \/ q.z # p.z
            THEN << <<"Z">> \o Fmt(p.z, 4) >> ELSE <<>>)
        \o (IF Cuts(p) /\ (first \/ ~Cuts(q) \/ q.feed_rate # p.feed_rate)
            THEN << <<"F">> \o Fmt(p.feed_rate[1], 1) >> ELSE <<>>)

WithoutParentheses(text) == SelectSeq(text, LAMBDA ch : ch \notin {"(", ")"})

\* C20: comment(text) is the text with every ( and ) removed, wrapped in one
\* pair of parentheses: it starts with (, ends with ), holds no parenthesis
\* in between, and comment of the result is the result again.
C20_CommentStripsAndWraps ==
    /\ cm_ret.status = "returned" =>
           LET line == cm_ret.value
               inner == SubSeq(line, 2, Len(line) - 1)
           IN  /\ Len(line) >= 2
               /\ Head(line) = "("
               /\ Last(line) = ")"
               /\ \A i \in DOMAIN inner : inner[i] \notin {"(", ")"}
               /\ inner = WithoutParentheses(cm_args)
    /\ cm_again.status = "returned" => cm_again.value = cm_ret.value

\* C20, witness: a text with an opening and a closing parenthesis and
\* another character, commented twice.
C20_Witness ==
    /\ cm_again.status = "returned"
    /\ "(" \in Range(cm_args)
    /\ ")" \in Range(cm_args)
    /\ "a" \in Range(cm_args)

(***************************************************************************)
(* The tool library                                                        *)
(***************************************************************************)

LibraryActive == lib_ret.status # "idle"

\* The tools stored under slot n.
StoredUnder(tools, n) == {tools[i][2] : i \in {j \in DOMAIN tools : tools[j][1] = n}}

\* Only add, remove, get and list_tools were made.
OnlyMapOperations(log) ==
    \A k \in DOMAIN log : log[k].op \in {"add", "remove", "get", "list_tools"}

\* The tool that the log last added under n, None if there is none or n
\* was removed since.
RECURSIVE LastAdded(_, _)
LastAdded(log, n) ==
    IF log = <<>> THEN None
    ELSE LET e == Last(log)
         IN  IF e.op = "add" /\ e.tool.number = n THEN Some(e.tool)
             ELSE IF e.op = "remove" /\ e.number = n THEN None
             ELSE LastAdded(SubSeq(log, 1, Len(log) - 1), n)

LibraryDid(name) == lib_log' # lib_log /\ Last(lib_log').op = name

\* C21: the library holds at most one tool per slot number, each under its
\* own number; get returns the tool last added under the number, or None
\* if it was never added or was removed since; list_tools returns every
\* stored tool once, in ascending slot order; remove raises nothing.
C21_OneToolPerSlotState ==
    LibraryActive =>
        /\ \A i, j \in DOMAIN lib_tools :
               lib_tools[i][1] = lib_tools[j][1] => i = j
        /\ \A i \in DOMAIN lib_tools : lib_tools[i][2].number = lib_tools[i][1]
        /\ lib_log # <<>> =>
               LET e == Last(lib_log)
               IN  /\ e.op = "get" /\ OnlyMapOperations(lib_log) =>
                          lib_ret = Returned(LastAdded(lib_log, e.number))
                   /\ e.op = "remove" => lib_ret = Returned(None)
                   /\ e.op = "list_tools" =>
                          LET listed == lib_ret.value
                          IN  /\ lib_ret.status = "returned"
                              /\ Len(listed) = Len(lib_tools)
                              /\ Range(listed) = Range(DictValues(lib_tools))
                              /\ \A k \in 1..(Len(listed) - 1) :
                                     listed[k].number < listed[k + 1].number

\* C21, the steps: add stores the tool under its number in place of what
\* was there and leaves the other slots alone; remove of a number that is
\* not stored, get and list_tools leave the library as it is.
C21_OneToolPerSlotStep ==
    /\ LibraryDid("add") =>
           LET tool == Last(lib_log').tool
           IN  /\ StoredUnder(lib_tools', tool.number) = {tool}
               /\ \A n \in LibraryNumbers \ {tool.number} :
                      StoredUnder(lib_tools', n) = StoredUnder(lib_tools, n)
    /\ LibraryDid("remove") =>
           LET n == Last(lib_log').number
           IN  /\ StoredUnder(lib_tools', n) = {}
               /\ StoredUnder(lib_tools, n) = {} => lib_tools' = lib_tools
    /\ LibraryDid("get") \/ LibraryDid("list_tools") => lib_tools' = lib_tools

\* C21: after any sequence of add, remove and lookup operations the
\* library holds at most one tool per slot number, add replacing, remove of
\* an absent number changing nothing, get returning the tool last added,
\* list_tools listing every tool once in ascending slot order, and get and
\* list_tools leaving the library unchanged: the state part always holds
\* and every step is as the step part says.
C21_OneToolPerSlot ==
    [](C21_OneToolPerSlotState) /\ [][C21_OneToolPerSlotStep]_vars

\* C21, witness: a tool added under slot 1 in place of another one and
\* looked up, with a tool in slot 2 stored before it.
C21_Witness ==
    /\ LibraryActive
    /\ Len(lib_log) = 3
    /\ lib_log[1].op = "add" /\ lib_log[1].tool.number = 1
    /\ lib_log[2].op = "add" /\ lib_log[2].tool.number = 1
    /\ lib_log[1].tool # lib_log[2].tool
    /\ lib_log[3].op = "get" /\ lib_log[3].number = 1
    /\ lib_ret = Returned(Some(lib_log[2].tool))

\* The mapping from slot numbers to tools that a log of operations leaves
\* in the library (map), and the mapping at its last save (saved): add
\* puts a tool under its number, remove takes the number out, save keeps
\* the mapping, a load after a save puts the kept mapping back.
RECURSIVE Replay(_)
Replay(log) ==
    IF log = <<>>
    THEN [map |-> [n \in LibraryNumbers |-> None], saved |-> None]
    ELSE LET before == Replay(SubSeq(log, 1, Len(log) - 1))
             e == Last(log)
         IN  CASE e.op = "add" ->
                      [before EXCEPT !.map[e.tool.number] = Some(e.tool)]
               [] e.op = "remove" ->
                      [before EXCEPT !.map[e.number] = None]
               [] e.op = "save" ->
                      [before EXCEPT !.saved = Some(before.map)]
               [] e.op = "load" /\ before.saved # None ->
                      [before EXCEPT !.map = before.saved[1]]
               [] OTHER -> before

\* C22: a library loaded from its file is the mapping that was saved: the
\* same slot numbers and under each the tool that was there, equal in
\* every field, whatever was added or removed between the save and the
\* load; and from_dict(to_dict(t)) = t for every tool t of the library.
C22_SaveLoadRoundTrip ==
    LibraryActive =>
        /\ \A i \in DOMAIN lib_tools :
               FromDict(ToDict(lib_tools[i][2])) = lib_tools[i][2]
        /\ lib_log # <<>> /\ Last(lib_log).op = "load"
                /\ lib_ret.status = "returned" =>
               LET saved == Replay(lib_log).saved[1]
               IN  \A n \in LibraryNumbers :
                       StoredUnder(lib_tools, n) = Range(saved[n])

\* C22, witness: a ball endmill added, saved, removed from memory by a
\* load of the file that holds it: it is back, a ball endmill still.
C22_Witness ==
    /\ LibraryActive
    /\ Len(lib_log) = 3
    /\ lib_log[1].op = "add" /\ lib_log[1].tool.tool_type = BALL_ENDMILL
    /\ lib_log[2].op = "save"
    /\ lib_log[3].op = "load"
    /\ DictValues(lib_tools) = <<lib_log[1].tool>>

(***************************************************************************)
(* recommend_operations                                                    *)
(***************************************************************************)

RecReturned == rec_ret.status = "returned"

\* The tools to choose from: those of the library, the defaults when it
\* holds none.
RecTools ==
    IF rec_args.library = <<>> THEN Range(DictValues(DefaultTools))
    ELSE Range(DictValues(rec_args.library))

OfKind(S, kind) == {t \in S : t.tool_type = kind}

\* choice is a tool of S of the largest (smallest) diameter, None if S is
\* empty.
IsLargestOf(S, choice) ==
    IF S = {} THEN choice = None
    ELSE /\ choice # None
         /\ choice[1] \in S
         /\ \A u \in S : u.diameter <= choice[1].diameter

IsSmallestOf(S, choice) ==
    IF S = {} THEN choice = None
    ELSE /\ choice # None
         /\ choice[1] \in S
         /\ \A u \in S : u.diameter >= choice[1].diameter

\* The tool of the operation of a strategy in the result, None without one.
RecTool(strategy) ==
    LET ops == rec_ret.value.operations
    IN  IF \E k \in DOMAIN ops : ops[k].strategy = strategy
        THEN Some(ops[CHOOSE k \in DOMAIN ops :
                          ops[k].strategy = strategy].tool)
        ELSE None

\* What the result is to be apart from the finishing tool: roughing tool,
\* order of the operations, finish allowance, the empty result.
RecRest ==
    LET ops == rec_ret.value.operations
        flats == OfKind(RecTools, FLAT_ENDMILL)
        reaching == {t \in flats : t.flute_length = 0
                                      \/ t.flute_length >= rec_args.depth}
        r == RecTool(ROUGHING)
        f == RecTool(FINISHING)
    IN  /\ IsLargestOf(IF reaching # {} THEN reaching ELSE flats, r)
        /\ [k \in DOMAIN ops |-> ops[k].strategy]
               = (IF r = None THEN <<>> ELSE <<ROUGHING>>)
                 \o (IF f = None THEN <<>> ELSE <<FINISHING>>)
        /\ r # None =>
               ops[1].finish_allowance = IF f # None THEN 50 ELSE 0
        /\ r = None /\ f = None =>
               /\ ops = <<>>
               /\ "No suitable tools found in library."
                      \in Range(rec_ret.value.summary)
        /\ r # None \/ f # None =>
               "No suitable tools found in library."
                   \notin Range(rec_ret.value.summary)

\* The finishing tool is the smallest ball endmill within the limit, else
\* the smallest flat endmill within it.
RecFinishingWithin(limit(_)) ==
    LET balls == {t \in OfKind(RecTools, BALL_ENDMILL) : limit(t)}
        flats == {t \in OfKind(RecTools, FLAT_ENDMILL) : limit(t)}
    IN  IsSmallestOf(IF balls # {} THEN balls ELSE flats,
                     RecTool(FINISHING))

\* C23 as stated: the tools come from the library unless it is empty; the
\* roughing tool is the largest flat endmill that reaches the depth, else
\* the largest flat endmill; the finishing tool is the smallest ball
\* endmill not larger than the roughing tool, else the smallest flat
\* endmill not larger than it (no limit without a roughing tool); roughing
\* comes first, with a 0.005 allowance exactly when there is a finishing
\* tool; without any tool the result is empty with a No suitable tools
\* line.
C23_RecommendedTools ==
    RecReturned =>
        /\ RecRest
        /\ RecFinishingWithin(
               LAMBDA t : RecTool(ROUGHING) = None
                              \/ t.diameter <= RecTool(ROUGHING)[1].diameter)

\* C23, amended: as stated, the finishing tool being limited to diameter
\* 1.0 when no roughing tool was chosen.
C23_RecommendedToolsLimited ==
    RecReturned =>
        /\ RecRest
        /\ RecFinishingWithin(
               LAMBDA t : t.diameter <= (IF RecTool(ROUGHING) = None
                                         THEN 10000
                                         ELSE RecTool(ROUGHING)[1].diameter))

\* C23, witness: a library whose only endmill is a ball endmill of
\* diameter 2.0: no roughing tool, no finishing tool, an empty result.
C23_Witness ==
    /\ RecReturned
    /\ OfKind(RecTools, FLAT_ENDMILL) = {}
    /\ \E t \in OfKind(RecTools, BALL_ENDMILL) : t.diameter > 10000
    /\ rec_args.library # <<>>
    /\ rec_ret.value.operations = <<>>

(***************************************************************************)
(* The raster lines of a roughing level                                    *)
(***************************************************************************)

\* What is left to cut at level i (from 0).
RoughLeftAt(i) == CellsOfRect(rough_args.stock_polygon) \ RoughExclusionAt(i)

\* The places of the plunge points of a segment: each starts the cut of one
\* sub-segment, which the feed point after it ends.
CutsOf(pts) == {k \in DOMAIN pts : pts[k].move_type = PLUNGE}

\* The index (from 0) of the raster line at height y, the first line being
\* at the lower bound of what is left to cut.
RasterIndex(left, y) ==
    (y - BoundsOf(left)[2]) \div rough_args.params.step_over

\* C24: within one roughing level every sub-segment clipped from raster
\* line i is cut against the direction of the line if and only if i is odd,
\* i counting every raster line from the first one, those that clip to
\* nothing too; the lines are cut in index order and the sub-segments of
\* one line in the order they lie along the line.
C24_OddLinesReversed ==
    RoughReturned =>
        \A s \in DOMAIN RoughSegments :
            LET pts == RoughSegments[s].points
                left == RoughLeftAt(RoughLevelOf(RoughSegments[s]))
                idx(k) == RasterIndex(left, pts[k].y)
                lo(k) == IF pts[k].x < pts[k + 1].x THEN pts[k].x
                         ELSE pts[k + 1].x
                hi(k) == IF pts[k].x < pts[k + 1].x THEN pts[k + 1].x
                         ELSE pts[k].x
            IN  /\ \A k \in CutsOf(pts) :
                       /\ pts[k + 1].move_type = FEED
                       /\ pts[k + 1].y = pts[k].y
                       /\ idx(k) % 2 = 1 <=> pts[k].x > pts[k + 1].x
                       /\ idx(k) % 2 = 0 <=> pts[k].x < pts[k + 1].x
                /\ \A k, m \in CutsOf(pts) :
                       k < m =>
                           \/ idx(k) < idx(m)
                           \/ idx(k) = idx(m) /\ hi(k) <= lo(m)

\* C24, witness: a level where a raster line clips to nothing and the line
\* after it, of odd index, is cut from right to left, and a level where a
\* line is cut in two sub-segments.
C24_Witness ==
    /\ RoughReturned
    /\ \E s \in DOMAIN RoughSegments :
           LET pts == RoughSegments[s].points
               left == RoughLeftAt(RoughLevelOf(RoughSegments[s]))
           IN  \E k \in CutsOf(pts) :
                   /\ RasterIndex(left, pts[k].y) % 2 = 1
                   /\ pts[k].x > pts[k + 1].x
                   /\ \E y \in BoundsOf(left)[2]..(pts[k].y - 1) :
                          \A m \in CutsOf(pts) : pts[m].y # y
    /\ \E s \in DOMAIN RoughSegments :
           LET pts == RoughSegments[s].points
           IN  \E k, m \in CutsOf(pts) : k # m /\ pts[k].y = pts[m].y

(***************************************************************************)
(* raster_lines_in_bounds                                                  *)
(***************************************************************************)

C26_SlicerOncePerJob ==
    (ct.pc = "done" /\ ct_ret.status = "returned" /\ job.operations # <<>>) =>
        ct.slices = 1

\* C26, what the loop does: slice_at_heights has been called once for each
\* operation of a call that returned.
C26_SlicerOncePerOperation ==
    (ct.pc = "done" /\ ct_ret.status = "returned") =>
        ct.slices = Len(job.operations)

(***************************************************************************)
(* Operation and Tool: the documented ranges                               *)
(***************************************************************************)

\* The ranges documented for an Operation and its Tool.
RecordInvariants(op) ==
    /\ op.step_down > 0
    /\ op.z_bottom < op.z_top
    /\ op.step_over_fraction > 0
    /\ op.step_over_fraction <= 1
    /\ op.safe_z > op.z_top
    /\ op.tool.diameter > 0

\* The operations that the loop of compute_toolpaths has handed to
\* compute_z_levels so far.
ReachedZLevels ==
    {k \in DOMAIN job.operations :
        \/ k < ct.i
        \/ k = ct.i /\ ct.pc = "done" /\ JobReady}

\* C27: the record invariants are enforced on construction (step_down > 0,
\* z_bottom < z_top, step_over_fraction in (0, 1], safe_z > z_top, tool
\* diameter > 0), so no operation violating them reaches the Z-level
\* generator or a planner.
C27_InvariantsEnforced ==
    \A k \in ReachedZLevels : RecordInvariants(job.operations[k])

(***************************************************************************)
(* _trace_ring: degenerate rings                                           *)
(***************************************************************************)

\* The distinct points among the coordinates of a ring.
DistinctPoints(coords) == {coords[k] : k \in DOMAIN coords}

\* C28: a ring with fewer than 2 distinct points produces no segment: what
\* _trace_ring returns for it is empty, also when the ring is given as two
\* or more coordinates that are all the same point.
C28_DegenerateRingSkipped ==
    (fin_ret.status = "returned" /\ fin_args.call = "_trace_ring"
        /\ Cardinality(DistinctPoints(fin_args.coords)) < 2) =>
        SegmentIsEmpty(fin_ret.value)

\* C28, what line 92 does: the ring is skipped when it has fewer than 2
\* coordinates, and only then.
C28_ShortRingSkipped ==
    (fin_ret.status = "returned" /\ fin_args.call = "_trace_ring") =>
        (SegmentIsEmpty(fin_ret.value) <=> Len(fin_args.coords) < 2)

(***************************************************************************)
(* Job.compute_toolpaths: termination                                      *)
(***************************************************************************)

\* C29: every call of compute_toolpaths on a job with a finite operation
\* list terminates, returning the toolpath list or raising: no call, also
\* of a job with a step_down <= 0 or a step_over <= 0, is left in a loop
\* that never ends.
C29_Terminates ==
    /\ ct_ret.status # "diverged"
    /\ ct.pc = "done" => ct_ret.status \in {"returned", "raised"}

\* C29, the part about step_down: a call that hands an operation with
\* step_down <= 0 to compute_z_levels ends in its ValueError.
C29_StepDownRejected ==
    (ct.pc = "done" /\ JobReady /\ ct.i \in DOMAIN job.operations
        /\ job.operations[ct.i].step_down <= 0) =>
        /\ ct_ret.status = "raised"
        /\ ct_ret.error = "ValueError"

(***************************************************************************)
(* The host: what is displayed after compute requests and model loads      *)
(***************************************************************************)

\* No thread has anything left to do.
GuiQuiescent ==
    /\ gui_host.pc = "idle"
    /\ gui_signals = <<>>
    /\ gui_loaders = {}
    /\ \A w \in DOMAIN gui_workers : gui_workers[w].pc = "done"

\* The toolpaths are those of the operations of request r, in order.
OfRequest(toolpaths, r) ==
    /\ Len(toolpaths) = Len(OperationsOf(r))
    /\ \A k \in DOMAIN toolpaths : toolpaths[k].op = OperationsOf(r)[k]

\* The toolpaths were computed from one state of the job: every one from
\* the same model and from the stock that wraps it.
OneSnapshot(toolpaths) ==
    \A k, n \in DOMAIN toolpaths :
        /\ toolpaths[k].model = toolpaths[n].model
        /\ toolpaths[k].stock = toolpaths[n].model

\* The lists delivered by the workers so far: those queued for the main
\* thread and the one displayed.
Delivered ==
    {gui_signals[k].toolpaths :
        k \in {n \in DOMAIN gui_signals : gui_signals[n].kind = "finished"}}
    \cup (IF gui_host.shown = None THEN {} ELSE {gui_host.shown[1]})

\* C30: after any interleaving of compute requests, model loads and worker
\* completions, the toolpaths finally displayed, and the G-code when some is
\* displayed, are those of the most recent compute request, and every
\* toolpath list delivered by a ToolpathWorker was computed from one
\* consistent snapshot of the job's model, stock and operations.
C30_LatestRequestDisplayed ==
    /\ (GuiQuiescent /\ gui_host.requests > 0) =>
           /\ gui_host.shown # None
           /\ OfRequest(gui_host.shown[1], gui_host.requests)
           /\ gui_host.gcode.kind = "gcode" =>
                  OfRequest(gui_host.gcode.of, gui_host.requests)
    /\ \A toolpaths \in Delivered :
           /\ OneSnapshot(toolpaths)
           /\ \E r \in 1..MaxRequests : OfRequest(toolpaths, r)

\* C30, first part alone: what is displayed in the end is of the most
\* recent request.
C30_NotOverwritten ==
    (GuiQuiescent /\ gui_host.requests > 0 /\ gui_host.shown # None) =>
        OfRequest(gui_host.shown[1], gui_host.requests)

\* C30, second part alone: no delivered list mixes models or stocks.
C30_NoMixedSnapshot ==
    \A toolpaths \in Delivered : OneSnapshot(toolpaths)

====
